---- MODULE Spec2Model ----
(***************************************************************************)
(* A model of restic-115: the REST adapter that stores a restic repository *)
(* on the 115 Open Platform.  Three parts of the program are modelled,     *)
(* each with a specification of its own over the shared variables:         *)
(*                                                                         *)
(*   SpecToken   TokenManager (src/open115/auth.rs): get_token and         *)
(*               refresh_token called by concurrent tasks.                 *)
(*   SpecPipe    Open115Client::request_with_retry (src/open115/client.rs) *)
(*               one authenticated call at a time against a remote that    *)
(*               answers with any status and body.                         *)
(*   SpecUpload  Open115Client::upload_file and handle_upload_success      *)
(*               against the file_nodes cache, one upload at a time.       *)
(*                                                                         *)
(* Opaque strings the program never inspects (tokens) are numbered; file   *)
(* ids are sequences of digits so that the String ordering the code uses   *)
(* (max_by_key on file_id) is the lexicographic one.                       *)
(***************************************************************************)
EXTENDS Integers, Sequences, FiniteSets, TLC

VARIABLES
    token,      \* TokenManager.token: Option<TokenInfo>
    now,        \* the clock read by Utc::now()
    rf,         \* the tasks inside get_token / refresh_token
    rq,         \* the request_with_retry call in progress
    db,         \* the file_nodes table: file_id -> row
    up,         \* the upload_file calls in progress
    remote,     \* the provider's tree: file_id -> node
    dt,         \* the calls of the path resolver and of the REST handlers
    ensured     \* path -> the id the last successful ensure_path returned

vars == <<token, now, rf, rq, db, up, remote, dt, ensured>>

tokenVars == <<token, now, rf>>
pipeVars == <<rq>>
uploadVars == <<db, up>>
dirVars == <<remote, dt, ensured>>

(***************************************************************************)
(* Bounds of the model.                                                    *)
(***************************************************************************)
MaxNow == 1         \* the clock runs 0..MaxNow
NumPairs == 2       \* token pairs the refresh endpoint can hand out
MaxLen == 1         \* longest upload body, and largest size a row carries

(***************************************************************************)
(* Program constants.                                                      *)
(***************************************************************************)
MAX_RATE_LIMIT_RETRIES == 6
ExpiryWindowSecs == 300
BackoffCapSecs == 16
CodeRefreshTooFrequent == 40140117
CodeQuota == 406
CodeTokenInvalidLo == 40140123
CodeTokenInvalidHi == 40140126

(***************************************************************************)
(* Option<T>, as a record of one shape.                                    *)
(***************************************************************************)
Some(x) == [some |-> TRUE, v |-> x]
NoneInt == [some |-> FALSE, v |-> 0]
NoneBool == [some |-> FALSE, v |-> FALSE]
unwrap_or(o, d) == IF o.some THEN o.v ELSE d

Min(a, b) == IF a <= b THEN a ELSE b

RECURSIVE Pow2(_)
Pow2(n) == IF n = 0 THEN 1 ELSE 2 * Pow2(n - 1)

\* a backoff that doubles once more than the attempt number asks for
backoff_sleep_Doubled(attempt) == Min(Pow2(attempt), BackoffCapSecs)

\* backoff_sleep: (1u64 << (attempt - 1)).min(16) seconds
backoff_sleep(attempt) == Min(Pow2(attempt - 1), BackoffCapSecs)

(***************************************************************************)
(* The `state` field of a provider envelope, as JSON: absent or null, a    *)
(* boolean, an integer or a string.  A string is the sequence of its       *)
(* characters, so that comparing it case-insensitively is a computation.   *)
(***************************************************************************)
JAbsent == [kind |-> "absent", b |-> FALSE, n |-> 0, s |-> <<>>]
JBool(x) == [kind |-> "bool", b |-> x, n |-> 0, s |-> <<>>]
JNum(x) == [kind |-> "num", b |-> FALSE, n |-> x, s |-> <<>>]
JStr(x) == [kind |-> "str", b |-> FALSE, n |-> 0, s |-> x]

\* types.rs deserialize_state: JSON -> Option<bool>
deserialize_state(j) ==
    CASE j.kind = "bool" -> Some(j.b)
      [] j.kind = "num" -> Some(j.n # 0)
      [] j.kind = "str" ->
            IF j.s \in {<<"0">>, <<"f","a","l","s","e">>, <<"F","a","l","s","e">>,
                        <<"F","A","L","S","E">>}
            THEN Some(FALSE)
            ELSE IF j.s \in {<<"1">>, <<"t","r","u","e">>, <<"T","r","u","e">>,
                             <<"T","R","U","E">>}
            THEN Some(TRUE)
            ELSE NoneBool
      [] OTHER -> NoneBool

(***************************************************************************)
(* TokenManager (src/open115/auth.rs).                                     *)
(*                                                                         *)
(* A token pair is numbered by the response that carried it: the seed pair *)
(* is 0, and refresh response g carries access token g and refresh token   *)
(* g.  Tasks are the concurrent callers of get_token and refresh_token     *)
(* (the server runs handlers on a multi-threaded runtime).                 *)
(***************************************************************************)
Callers == {"c1", "c2"}
PairIds == 1..NumPairs

NoToken == [some |-> FALSE, access_token |-> 0, refresh_token |-> 0,
            has_exp |-> FALSE, expires_at |-> 0]
SeedToken == [some |-> TRUE, access_token |-> 0, refresh_token |-> 0,
              has_exp |-> FALSE, expires_at |-> 0]

\* TokenManager::new: a pair is stored only when both tokens are configured
TokenManager_new(has_access, has_refresh) ==
    IF has_access /\ has_refresh THEN SeedToken ELSE NoToken

\* an expiry test that still takes a token for valid at the edge of the window
is_expired_StrictEdge(t, n) == t.has_exp /\ n + ExpiryWindowSecs > t.expires_at

\* TokenInfo::is_expired
is_expired(t, n) == t.has_exp /\ n + ExpiryWindowSecs >= t.expires_at

is_refresh_rate_limited(code) == code = CodeRefreshTooFrequent

(* What the refresh endpoint can answer: no answer (transport error), an   *)
(* answer that is not the JSON envelope, or an envelope.                   *)
NoData == [has_data |-> FALSE, access_token |-> NoneInt,
           refresh_token |-> NoneInt, expires_in |-> NoneInt]
RData(a, r, e) == [has_data |-> TRUE, access_token |-> a, refresh_token |-> r,
                   expires_in |-> e]
RBody(st, cd, d) ==
    [kind |-> "body", state |-> st, code |-> cd, has_data |-> d.has_data,
     access_token |-> d.access_token, refresh_token |-> d.refresh_token,
     expires_in |-> d.expires_in]
RTransport == [RBody(JAbsent, NoneInt, NoData) EXCEPT !.kind = "transport"]
RGarbage == [RBody(JAbsent, NoneInt, NoData) EXCEPT !.kind = "garbage"]

\* of an answer, what the retry loop looks at: its kind, state and code
RNone == [kind |-> "none", state |-> JAbsent, code |-> NoneInt]
answer_head(resp) == [kind |-> resp.kind, state |-> resp.state, code |-> resp.code]

\* A task: where it is in get_token / refresh_token (pc), the attempt of the
\* retry loop (the POSTs it has sent), the refresh token it read (rt), the
\* sleep it is in (secs), the answer its last POST got (last) and, once done,
\* the Result it returns (ok, val | err, with the code an Auth error quotes).
IdleTask == [pc |-> "idle", attempt |-> 0, rt |-> 0, secs |-> 0, last |-> RNone,
             ok |-> FALSE, val |-> 0, err |-> "", ecode |-> 0]
DoneOk(v) == [IdleTask EXCEPT !.pc = "done", !.ok = TRUE, !.val = v]
DoneErr(e) == [IdleTask EXCEPT !.pc = "done", !.err = e]

ExpiresIns == {NoneInt, Some(ExpiryWindowSecs + 1)}
RefreshDatas ==
    {NoData}
    \cup {RData(NoneInt, Some(g), NoneInt) : g \in PairIds}
    \cup {RData(Some(g), NoneInt, NoneInt) : g \in PairIds}
    \cup {RData(Some(g), Some(g), e) : g \in PairIds, e \in ExpiresIns}
RefreshStates == {JBool(TRUE), JBool(FALSE), JAbsent}
RefreshCodes == {NoneInt, Some(0), Some(CodeRefreshTooFrequent), Some(5)}
RefreshResps ==
    {RTransport, RGarbage}
    \cup {RBody(JBool(TRUE), Some(0), d) : d \in RefreshDatas}
    \cup {RBody(st, cd, d) : st \in RefreshStates, cd \in RefreshCodes,
                            d \in {NoData, RData(Some(1), Some(1), NoneInt)}}

\* refresh_token, lines 263-265: the envelope reports success
refresh_ok(resp) ==
    /\ resp.kind = "body"
    /\ unwrap_or(deserialize_state(resp.state), FALSE)
    /\ unwrap_or(resp.code, -1) = 0

\* a retry loop that also re-sends after any application error
refresh_classify_RetriesAnyCode(attempt, resp) ==
    IF resp.kind \in {"transport", "garbage"}
    THEN IF attempt < MAX_RATE_LIMIT_RETRIES THEN "retry" ELSE "HttpClient"
    ELSE IF refresh_ok(resp) THEN "break"
    ELSE IF attempt < MAX_RATE_LIMIT_RETRIES
         THEN "retry"
         ELSE "Auth: Failed to refresh token"

\* refresh_token, lines 225-290: one attempt's answer is retried after a
\* backoff sleep, ends the call with an error, or leaves the loop.
refresh_classify(attempt, resp) ==
    IF resp.kind \in {"transport", "garbage"}
    THEN IF attempt < MAX_RATE_LIMIT_RETRIES THEN "retry" ELSE "HttpClient"
    ELSE IF refresh_ok(resp) THEN "break"
    ELSE IF is_refresh_rate_limited(unwrap_or(resp.code, -1))
            /\ attempt < MAX_RATE_LIMIT_RETRIES
         THEN "retry"
         ELSE "Auth: Failed to refresh token"

\* refresh_token, lines 299-308: the fields a successful envelope must carry
refresh_missing(resp) ==
    IF ~resp.has_data THEN "Auth: No data in refresh token response"
    ELSE IF ~resp.access_token.some THEN "Auth: missing access_token"
    ELSE IF ~resp.refresh_token.some THEN "Auth: missing refresh_token"
    ELSE ""

\* a TokenInfo that takes the new access token and keeps the old refresh token
NewTokenInfo_KeepsOldRefresh(old, resp, n) ==
    [some |-> TRUE,
     access_token |-> resp.access_token.v,
     refresh_token |-> old.refresh_token,
     has_exp |-> resp.expires_in.some,
     expires_at |-> IF resp.expires_in.some THEN n + resp.expires_in.v ELSE 0]

\* refresh_token, lines 310-319: the TokenInfo written under the write lock
NewTokenInfo(old, resp, n) ==
    [some |-> TRUE,
     access_token |-> resp.access_token.v,
     refresh_token |-> resp.refresh_token.v,
     has_exp |-> resp.expires_in.some,
     expires_at |-> IF resp.expires_in.some THEN n + resp.expires_in.v ELSE 0]

\* refresh_token, lines 213-338: what one answer does to the stored token
\* and to the task that received it.
refresh_outcome(old, t, resp, n) ==
    LET cls == refresh_classify(t.attempt, resp)
        miss == refresh_missing(resp)
    IN CASE cls = "retry" ->
              [token |-> old,
               task |-> [t EXCEPT !.pc = "sleep", !.secs = backoff_sleep(t.attempt),
                                  !.last = answer_head(resp)]]
         [] cls = "break" /\ miss = "" ->
              [token |-> NewTokenInfo(old, resp, n),
               task |-> [DoneOk(resp.access_token.v) EXCEPT
                            !.last = answer_head(resp)]]
         [] cls = "break" /\ miss # "" ->
              [token |-> old,
               task |-> [DoneErr(miss) EXCEPT !.last = answer_head(resp)]]
         [] cls = "Auth: Failed to refresh token" ->
              [token |-> old,
               task |-> [DoneErr(cls) EXCEPT !.last = answer_head(resp),
                                             !.ecode = unwrap_or(resp.code, -1)]]
         [] OTHER ->
              [token |-> old,
               task |-> [DoneErr(cls) EXCEPT !.last = answer_head(resp)]]

\* get_token: the stored access token while it is not about to expire,
\* otherwise a refresh (the read lock is released before refresh_token runs).
get_token(c) ==
    /\ rf[c].pc = "idle"
    /\ rf' = [rf EXCEPT ![c] =
                IF token.some /\ ~is_expired(token, now)
                THEN DoneOk(token.access_token)
                ELSE [IdleTask EXCEPT !.pc = "enter"]]
    /\ UNCHANGED <<token, now>>

\* refresh_token, lines 200-223: read the stored refresh token under the read
\* lock and POST it (attempt 1); without a stored token the call fails.
refresh_token(c) ==
    /\ rf[c].pc \in {"idle", "enter"}
    /\ rf' = [rf EXCEPT ![c] =
                IF token.some
                THEN [IdleTask EXCEPT !.pc = "inflight", !.attempt = 1,
                                      !.rt = token.refresh_token]
                ELSE DoneErr("Auth: Missing refresh token")]
    /\ UNCHANGED <<token, now>>

\* refresh_token, lines 225-338: the answer to the POST in flight
refresh_recv(c) ==
    /\ rf[c].pc = "inflight"
    /\ \E resp \in RefreshResps :
         LET o == refresh_outcome(token, rf[c], resp, now)
         IN /\ token' = o.token
            /\ rf' = [rf EXCEPT ![c] = o.task]
    /\ UNCHANGED now

\* refresh_token, lines 216-223: the backoff sleep ends and the loop POSTs again
refresh_wake(c) ==
    /\ rf[c].pc = "sleep"
    /\ rf' = [rf EXCEPT ![c].pc = "inflight", ![c].attempt = rf[c].attempt + 1,
                        ![c].secs = 0, ![c].last = RNone]
    /\ UNCHANGED <<token, now>>

\* the caller takes the Result
refresh_return(c) ==
    /\ rf[c].pc = "done"
    /\ rf' = [rf EXCEPT ![c] = IdleTask]
    /\ UNCHANGED <<token, now>>

\* time passes
Tick ==
    /\ now < MaxNow
    /\ now' = now + 1
    /\ UNCHANGED <<token, rf>>

(***************************************************************************)
(* Open115Client::request_with_retry (src/open115/client.rs), the pipeline *)
(* every authenticated call goes through.                                  *)
(*                                                                         *)
(* A response is its HTTP status and its body.  The body is not JSON       *)
(* ("garbage") or a JSON value with a `state`, an integer `code` or none,  *)
(* and the rest of its fields, of which the pipeline only needs to know    *)
(* whether they deserialise into the caller's type T (fits).  A dispatch   *)
(* that gets no response is the "transport" answer.                        *)
(***************************************************************************)
NoResp == [kind |-> "none", status |-> 0, state |-> JAbsent, code |-> NoneInt,
           fits |-> FALSE]
PTransport == [NoResp EXCEPT !.kind = "transport"]
PGarbage(st) == [NoResp EXCEPT !.kind = "garbage", !.status = st]
PJson(st, state, code, fits) ==
    [kind |-> "json", status |-> st, state |-> state, code |-> code, fits |-> fits]

Statuses == {200, 401, 429, 500}
PipeStates == {JAbsent, JBool(TRUE), JBool(FALSE), JStr(<<"F","a","l","s","e">>)}
PipeCodes ==
    {NoneInt, Some(0), Some(5), Some(CodeQuota), Some(CodeRefreshTooFrequent),
     Some(CodeTokenInvalidLo - 1), Some(CodeTokenInvalidLo),
     Some(CodeTokenInvalidHi), Some(CodeTokenInvalidHi + 1)}
PipeResps ==
    {PTransport}
    \cup {PGarbage(st) : st \in Statuses}
    \cup {PJson(st, state, code, fits) :
            st \in Statuses, state \in PipeStates, code \in PipeCodes,
            fits \in BOOLEAN}

is_access_token_invalid(code) ==
    code >= CodeTokenInvalidLo /\ code <= CodeTokenInvalidHi

is_quota_limited(code) == code = CodeQuota

is_rate_limited(code) == is_quota_limited(code) \/ code = CodeRefreshTooFrequent

\* u8::to_ascii_lowercase on the letters a `state` string is compared on
to_ascii_lowercase(ch) ==
    CASE ch = "F" -> "f" [] ch = "A" -> "a" [] ch = "L" -> "l"
      [] ch = "S" -> "s" [] ch = "E" -> "e" [] ch = "T" -> "t"
      [] ch = "R" -> "r" [] ch = "U" -> "u" [] OTHER -> ch

eq_ignore_ascii_case(s, t) ==
    /\ Len(s) = Len(t)
    /\ \A i \in 1..Len(s) : to_ascii_lowercase(s[i]) = to_ascii_lowercase(t[i])

\* is_api_error that compares the state string with "false" as written
is_api_error_ExactCase(v) ==
    \/ v.code.some /\ v.code.v # 0
    \/ v.state.kind = "bool" /\ ~v.state.b
    \/ v.state.kind = "num" /\ v.state.n = 0
    \/ /\ v.state.kind = "str"
       /\ v.state.s \in {<<"0">>, <<"f","a","l","s","e">>}

\* is_api_error: an integer code other than 0, or a state that is false, 0,
\* "0" or "false" in any case
is_api_error(v) ==
    \/ v.code.some /\ v.code.v # 0
    \/ v.state.kind = "bool" /\ ~v.state.b
    \/ v.state.kind = "num" /\ v.state.n = 0
    \/ /\ v.state.kind = "str"
       /\ \/ v.state.s = <<"0">>
          \/ eq_ignore_ascii_case(v.state.s, <<"f","a","l","s","e">>)

\* require_tokens: both tokens must be stored
require_tokens(t) == t.some

\* lines 434-483 read every response as the first answer of an attempt, but
\* never back off
classify_NeverBacksOff(r, attempt) ==
    IF r.status = 401 THEN "refresh"
    ELSE IF r.kind = "json" /\ is_api_error(r) /\ r.code.some
            /\ is_access_token_invalid(r.code.v)
    THEN "refresh"
    ELSE "return"

\* lines 434-483 with a backoff on every rate-limited answer, the last
\* attempt's too
classify_BacksOffOnLast(r, attempt) ==
    IF r.status = 401 THEN "refresh"
    ELSE IF r.status = 429 THEN "backoff"
    ELSE IF r.kind = "json" /\ is_api_error(r) /\ r.code.some
            /\ is_access_token_invalid(r.code.v)
    THEN "refresh"
    ELSE IF r.kind = "json" /\ is_api_error(r) /\ r.code.some
            /\ is_rate_limited(r.code.v)
    THEN "backoff"
    ELSE "return"

\* lines 434-483: what the first answer of an attempt leads to
classify(r, attempt) ==
    IF r.status = 401 THEN "refresh"
    ELSE IF r.status = 429 /\ attempt < MAX_RATE_LIMIT_RETRIES THEN "backoff"
    ELSE IF r.kind = "json" /\ is_api_error(r) /\ r.code.some
            /\ is_access_token_invalid(r.code.v)
    THEN "refresh"
    ELSE IF r.kind = "json" /\ is_api_error(r) /\ r.code.some
            /\ is_rate_limited(r.code.v) /\ attempt < MAX_RATE_LIMIT_RETRIES
    THEN "backoff"
    ELSE "return"

\* the request_with_retry call: its place (pc), the attempt of the loop, the
\* dispatches made and refreshes forced so far, the sleep it is in, the token
\* its last dispatch carried, the last answer it got and, once done, the
\* Result it returns (ok, ret | err).
RqIdle == [pc |-> "idle", attempt |-> 0, dispatches |-> 0, forced |-> 0,
           secs |-> 0, sent |-> 0, last |-> NoResp,
           ok |-> FALSE, ret |-> NoResp, err |-> ""]

\* a parse that turns every JSON body into a value of type T
from_json_Lenient(q, r) ==
    IF r.kind = "transport"
    THEN [q EXCEPT !.pc = "done", !.last = r, !.err = "HttpClient"]
    ELSE IF r.kind = "json"
    THEN [q EXCEPT !.pc = "done", !.last = r, !.ok = TRUE, !.ret = r]
    ELSE [q EXCEPT !.pc = "done", !.last = r, !.err = "Json"]

\* `?` on make_request, then serde_json::from_slice::<T> / from_value::<T>:
\* the call ends with the value, or with a decode or transport error
from_json(q, r) ==
    IF r.kind = "transport"
    THEN [q EXCEPT !.pc = "done", !.last = r, !.err = "HttpClient"]
    ELSE IF r.kind = "json" /\ r.fits
    THEN [q EXCEPT !.pc = "done", !.last = r, !.ok = TRUE, !.ret = r]
    ELSE [q EXCEPT !.pc = "done", !.last = r, !.err = "Json"]

\* TokenManager::refresh_token run to its end by one task: the stored token
\* and the Result after the attempt that ends the call
refresh_call(old, n) ==
    IF ~old.some
    THEN {[token |-> old, ok |-> FALSE, val |-> 0,
           err |-> "Auth: Missing refresh token"]}
    ELSE LET outs == {refresh_outcome(old, [IdleTask EXCEPT !.attempt = a],
                                      resp, n) :
                         a \in 1..MAX_RATE_LIMIT_RETRIES, resp \in RefreshResps}
         IN {[token |-> o.token, ok |-> o.task.ok, val |-> o.task.val,
              err |-> o.task.err] : o \in {x \in outs : x.task.pc = "done"}}

\* TokenManager::get_token run to its end by one task
get_token_call(old, n) ==
    IF old.some /\ ~is_expired(old, n)
    THEN {[token |-> old, ok |-> TRUE, val |-> old.access_token, err |-> ""]}
    ELSE refresh_call(old, n)

\* line 428: the call starts; without stored tokens it fails at once
pipe_call ==
    /\ rq.pc = "idle"
    /\ rq' = IF require_tokens(token)
             THEN [RqIdle EXCEPT !.pc = "loop", !.attempt = 1]
             ELSE [RqIdle EXCEPT !.pc = "done", !.err = "Auth: Missing 115 tokens"]
    /\ UNCHANGED <<token, now, rf>>

\* lines 431-432: get_token (which refreshes a token about to expire), then
\* the request is sent with the token it returned
pipe_dispatch ==
    /\ rq.pc = "loop"
    /\ \E g \in get_token_call(token, now) :
         /\ token' = g.token
         /\ rq' = IF g.ok
                  THEN [rq EXCEPT !.pc = "wait", !.dispatches = rq.dispatches + 1,
                                  !.sent = g.val, !.last = NoResp]
                  ELSE [rq EXCEPT !.pc = "done", !.last = NoResp, !.err = g.err]
    /\ UNCHANGED <<now, rf>>

\* lines 432-483: the answer to the request of this attempt
pipe_recv ==
    /\ rq.pc = "wait"
    /\ \E r \in PipeResps :
         LET cls == classify(r, rq.attempt)
         IN rq' = CASE r.kind = "transport" -> from_json(rq, r)
                    [] r.kind # "transport" /\ cls = "refresh" ->
                          [rq EXCEPT !.pc = "refresh", !.last = r]
                    [] r.kind # "transport" /\ cls = "backoff" ->
                          [rq EXCEPT !.pc = "sleep", !.last = r,
                                     !.secs = backoff_sleep(rq.attempt)]
                    [] OTHER -> from_json(rq, r)
    /\ UNCHANGED <<token, now, rf>>

Unreachable == "panic: internal error: entered unreachable code"

\* lines 450-451, 473-474: the backoff sleep ends and `continue` takes the
\* next attempt of 1..=MAX_RATE_LIMIT_RETRIES; after the last one the loop
\* would end and line 486, unreachable!(), would panic
pipe_wake ==
    /\ rq.pc = "sleep"
    /\ rq' = IF rq.attempt < MAX_RATE_LIMIT_RETRIES
             THEN [rq EXCEPT !.pc = "loop", !.attempt = rq.attempt + 1, !.secs = 0,
                             !.last = NoResp]
             ELSE [rq EXCEPT !.pc = "done", !.secs = 0, !.last = NoResp,
                             !.err = Unreachable]
    /\ UNCHANGED <<token, now, rf>>

\* the forced refresh followed by a re-dispatch that carries the token of the
\* dispatch before it
pipe_refresh_OldToken ==
    /\ rq.pc = "refresh"
    /\ \E g \in refresh_call(token, now) :
         /\ token' = g.token
         /\ rq' = IF g.ok
                  THEN [rq EXCEPT !.pc = "wait2", !.forced = rq.forced + 1,
                                  !.dispatches = rq.dispatches + 1,
                                  !.sent = rq.sent, !.last = NoResp]
                  ELSE [rq EXCEPT !.pc = "done", !.last = NoResp, !.err = g.err]
    /\ UNCHANGED <<now, rf>>

\* lines 436-437, 460-461: the forced refresh; its error ends the call, its
\* token goes out with the second request
pipe_refresh ==
    /\ rq.pc = "refresh"
    /\ \E g \in refresh_call(token, now) :
         /\ token' = g.token
         /\ rq' = IF g.ok
                  THEN [rq EXCEPT !.pc = "wait2", !.forced = rq.forced + 1,
                                  !.dispatches = rq.dispatches + 1,
                                  !.sent = g.val, !.last = NoResp]
                  ELSE [rq EXCEPT !.pc = "done", !.last = NoResp, !.err = g.err]
    /\ UNCHANGED <<now, rf>>

\* lines 437-438, 461-462: the answer to the second request is the result,
\* whatever its status
pipe_recv2 ==
    /\ rq.pc = "wait2"
    /\ \E r \in PipeResps : rq' = from_json(rq, r)
    /\ UNCHANGED <<token, now, rf>>

\* the caller takes the Result
pipe_return ==
    /\ rq.pc = "done"
    /\ rq' = RqIdle
    /\ UNCHANGED <<token, now, rf>>

(***************************************************************************)
(* The file_nodes cache and Open115Client::upload_file                     *)
(* (src/open115/client.rs).                                                *)
(*                                                                         *)
(* The table is keyed by file_id (its primary key): db maps a file id to   *)
(* its row or to NoRow.  A file id is the sequence of its digits.          *)
(***************************************************************************)
Ids == {<<9>>, <<1, 0>>}
NoId == <<>>
Parents == {<<0>>, <<5>>}
Names == {"a", "b"}
PickCodes == {"", "pc"}
Sizes == 0..MaxLen

NoRow == [some |-> FALSE, parent_id |-> NoId, name |-> "", is_dir |-> FALSE,
          size |-> 0, pick_code |-> ""]
Row(p, n, sz, pc) == [some |-> TRUE, parent_id |-> p, name |-> n,
                      is_dir |-> FALSE, size |-> sz, pick_code |-> pc]

\* the order of the numbers the ids spell: a shorter id is smaller
str_lt_Numeric(x, y) ==
    \/ Len(x) < Len(y)
    \/ /\ Len(x) = Len(y)
       /\ \E i \in 1..Len(y) :
             /\ \A j \in 1..(i - 1) : x[j] = y[j]
             /\ x[i] < y[i]

\* String::cmp on file ids: byte-wise, a proper prefix is smaller
str_lt(x, y) ==
    \E i \in 1..Len(y) :
        /\ \A j \in 1..(i - 1) : j <= Len(x) /\ x[j] = y[j]
        /\ IF i > Len(x) THEN TRUE ELSE x[i] < y[i]

NoFileInfo == [some |-> FALSE, file_id |-> NoId, filename |-> "",
               is_dir |-> FALSE, size |-> 0, pick_code |-> ""]
FileInfo(id, n, dir, sz, pc) ==
    [some |-> TRUE, file_id |-> id, filename |-> n, is_dir |-> dir,
     size |-> sz, pick_code |-> pc]

\* find_file: among the rows with this parent and name, the one with the
\* greatest file_id (max_by_key)
find_file(d, cid, name) ==
    LET res == {id \in DOMAIN d : d[id].some /\ d[id].parent_id = cid
                                  /\ d[id].name = name}
    IN IF res = {} THEN NoFileInfo
       ELSE LET m == CHOOSE x \in res : \A o \in res \ {x} : str_lt(o, x)
            IN FileInfo(m, d[m].name, d[m].is_dir, d[m].size, d[m].pick_code)

\* list_files that returns the rows of every parent
list_files_AnyParent(d, cid) ==
    {FileInfo(id, d[id].name, d[id].is_dir, d[id].size, d[id].pick_code) :
        id \in {x \in DOMAIN d : d[x].some}}

\* list_files: the rows with this parent
list_files(d, cid) ==
    {FileInfo(id, d[id].name, d[id].is_dir, d[id].size, d[id].pick_code) :
        id \in {x \in DOMAIN d : d[x].some /\ d[x].parent_id = cid}}

\* delete_file without the update of the cache
delete_file_KeepsRow(d, id, remote_ok) == d

\* delete_file: an Err of the remote call returns before the cache is touched;
\* any answer, also one that reports a failure, removes the row by id
delete_file(d, id, remote_ok) ==
    IF remote_ok THEN [d EXCEPT ![id] = NoRow] ELSE d

\* the upload_file call: its place (pc), its arguments (parent, name and the
\* length of the bytes), the FileInfo it reconciles, the same-name rows still
\* to delete, whether it has changed the cache so far, the OSS answer it got
\* and, once done, the Result it returns (ok | err).  While the second
\* upload-init is in flight, sign_val is the range of the bytes whose hash it
\* carries.
NoSign == [some |-> FALSE, start |-> 0, end |-> 0]
Sign(s, e) == [some |-> TRUE, start |-> s, end |-> e]
NoCb == [kind |-> "none", state |-> JAbsent, code |-> NoneInt, has_data |-> FALSE,
         file_id |-> NoId, pick_code |-> "", file_name |-> "", file_size |-> 0]
UpIdle == [pc |-> "idle", parent |-> NoId, name |-> "", len |-> 0,
           info |-> NoFileInfo, dups |-> {}, changed |-> FALSE, cb |-> NoCb,
           ok |-> FALSE, err |-> "", sign_val |-> NoSign]
DbEmpty == [id \in Ids |-> NoRow]
UpOk(u) == [u EXCEPT !.pc = "done", !.ok = TRUE, !.dups = {}]
UpErr(u, e) == [u EXCEPT !.pc = "done", !.err = e, !.dups = {}]


(* What /open/upload/init can answer.  Of the `data` object the upload     *)
(* reads the status, file_id and pick_code, the sign_check range (sign:    *)
(* present when sign_check and sign_key are both there and the range       *)
(* parses) and the OSS fields (oss: bucket, object and the callback pair   *)
(* are all there).                                                         *)
NoInitData == [has |-> FALSE, status |-> -1, file_id |-> NoId, pick_code |-> "",
               sign |-> NoSign, oss |-> FALSE]
InitData(st, id, pc, sg, oss) ==
    [has |-> TRUE, status |-> st, file_id |-> id, pick_code |-> pc,
     sign |-> sg, oss |-> oss]
Signs == {NoSign} \cup {Sign(s, e) : s \in 0..(MaxLen + 1), e \in 0..(MaxLen + 1)}
InitDatas ==
    {InitData(2, id, pc, NoSign, FALSE) : id \in Ids \cup {NoId}, pc \in PickCodes}
    \cup {InitData(7, NoId, "", sg, oss) : sg \in Signs, oss \in BOOLEAN}
    \cup {InitData(1, NoId, "", NoSign, oss) : oss \in BOOLEAN}
InitEnv(piped, st, cd, d) == [piped |-> piped, state |-> st, code |-> cd, data |-> d]
InitResps ==
    {InitEnv(FALSE, JAbsent, NoneInt, NoInitData)}
    \cup {InitEnv(TRUE, JBool(TRUE), Some(0), d) : d \in InitDatas \cup {NoInitData}}
    \cup {InitEnv(TRUE, st, cd, InitData(1, NoId, "", NoSign, TRUE)) :
            st \in {JAbsent, JBool(FALSE)}, cd \in {NoneInt, Some(5)}}

\* upload_init: the pipeline's error, an Open115Api error for an envelope that
\* reports one, an error for an envelope without data, else the data
upload_init(resp) ==
    IF ~resp.piped THEN [err |-> "HttpClient", data |-> NoInitData]
    ELSE IF deserialize_state(resp.state) = Some(FALSE) \/ unwrap_or(resp.code, 0) # 0
    THEN [err |-> "Open115Api", data |-> NoInitData]
    ELSE IF ~resp.data.has
    THEN [err |-> "Internal: upload init: missing data", data |-> NoInitData]
    ELSE [err |-> "", data |-> resp.data]

\* sign_check_range that does not clamp the end to the last byte
sign_check_range_NoClamp(sg, file_size) ==
    IF file_size = 0 \/ sg.start >= file_size
    THEN [err |-> "Internal: upload init returned invalid sign_check",
          start |-> 0, end |-> 0]
    ELSE IF sg.start > sg.end
         THEN [err |-> "Internal: upload init returned invalid sign_check (start>end)",
               start |-> 0, end |-> 0]
         ELSE [err |-> "", start |-> sg.start, end |-> sg.end]

\* upload_file, lines 1229-1241: the range of the challenge, clamped to the
\* bytes, or the error that ends the upload
sign_check_range(sg, file_size) ==
    IF file_size = 0 \/ sg.start >= file_size
    THEN [err |-> "Internal: upload init returned invalid sign_check",
          start |-> 0, end |-> 0]
    ELSE LET e == Min(sg.end, file_size - 1)
         IN IF sg.start > e
            THEN [err |-> "Internal: upload init returned invalid sign_check (start>end)",
                  start |-> 0, end |-> 0]
            ELSE [err |-> "", start |-> sg.start, end |-> e]

\* &data[start..=end] on data of len bytes: the index is in bounds, else the
\* slice panics
slice_in_bounds(start, end, len) == end < len /\ start <= end + 1

SlicePanic == "panic: range end index out of range for slice"

(* What the OSS PUT can answer: no answer, an HTTP error status, or HTTP   *)
(* success with an empty body, a body that is not the callback envelope,   *)
(* or the envelope.                                                        *)
CbEnv(st, cd, hd, id, pc, fname, fsize) ==
    [kind |-> "envelope", state |-> st, code |-> cd, has_data |-> hd,
     file_id |-> id, pick_code |-> pc, file_name |-> fname, file_size |-> fsize]
CbDatas ==
    {[file_id |-> id, pick_code |-> pc, file_name |-> fname, file_size |-> fsize] :
        id \in Ids \cup {NoId}, pc \in PickCodes, fname \in Names \cup {""},
        fsize \in Sizes}
PutResps ==
    {[NoCb EXCEPT !.kind = k] : k \in {"transport", "http_error", "empty", "garbage"}}
    \cup {CbEnv(JBool(TRUE), Some(0), TRUE, d.file_id, d.pick_code, d.file_name,
                d.file_size) : d \in CbDatas}
    \cup {CbEnv(st, cd, TRUE, <<9>>, "pc", "", 0) :
            st \in {JAbsent, JBool(FALSE), JBool(TRUE), JNum(1)},
            cd \in {NoneInt, Some(0), Some(5)}}
    \cup {CbEnv(st, cd, FALSE, NoId, "", "", 0) :
            st \in {JBool(FALSE), JBool(TRUE)}, cd \in {NoneInt, Some(0)}}

\* the callback check without the test of the pick_code
callback_ok_AnyPickCode(b) ==
    /\ b.kind = "envelope"
    /\ unwrap_or(deserialize_state(b.state), FALSE)
    /\ unwrap_or(b.code, 0) = 0
    /\ b.has_data
    /\ b.file_id # NoId

\* oss_put_object, lines 1103-1118: the body carries valid callback data
callback_ok(b) ==
    /\ b.kind = "envelope"
    /\ unwrap_or(deserialize_state(b.state), FALSE)
    /\ unwrap_or(b.code, 0) = 0
    /\ b.has_data
    /\ b.file_id # NoId
    /\ b.pick_code # ""

CallbackMissing ==
    "Internal: OSS upload completed but server failed to return file metadata via callback"

\* handle_upload_success, lines 1122-1128: reconciliation starts by selecting
\* the rows of the same parent and name with another file_id
reconcile(u, d, info) ==
    LET to_delete == {id \in Ids : /\ d[id].some
                                   /\ d[id].parent_id = u.parent
                                   /\ d[id].name = info.filename
                                   /\ id # info.file_id}
    IN [u EXCEPT !.pc = IF to_delete = {} THEN "insert" ELSE "delete",
                 !.info = info, !.dups = to_delete]

\* upload_file, lines 1184-1221 and 1264-1283: instant dedup; without a
\* file_id in the answer the upload succeeds and reconciles nothing
fast_upload(u, d, data) ==
    IF data.file_id # NoId
    THEN reconcile(u, d, FileInfo(data.file_id, u.name, FALSE, u.len, data.pick_code))
    ELSE UpOk(u)

\* upload_file, lines 1286-1296: the OSS fields of the init data
oss_prepare(u, data) ==
    IF data.oss THEN [u EXCEPT !.pc = "token"]
    ELSE UpErr(u, "Internal: upload: missing bucket")

\* upload_file, lines 1166-1177: the hashes are computed and the first
\* upload-init is sent
upload_file(p, n, l) ==
    /\ up.pc = "idle"
    /\ up' = [UpIdle EXCEPT !.pc = "init1", !.parent = p, !.name = n, !.len = l]
    /\ UNCHANGED db

\* lines 1173-1256: resp answers the first upload-init
upload_init1_answer(resp) ==
    /\ up.pc = "init1"
    /\ LET r == upload_init(resp)
           rng == sign_check_range(r.data.sign, up.len)
       IN up' = CASE r.err # "" -> UpErr(up, r.err)
                  [] r.err = "" /\ r.data.status = 2 -> fast_upload(up, db, r.data)
                  [] r.err = "" /\ r.data.status \in 6..8 /\ r.data.sign.some ->
                        IF rng.err # "" THEN UpErr(up, rng.err)
                        ELSE IF ~slice_in_bounds(rng.start, rng.end, up.len)
                        THEN UpErr(up, SlicePanic)
                        ELSE [up EXCEPT !.pc = "init2",
                                        !.sign_val = Sign(rng.start, rng.end)]
                  [] OTHER -> oss_prepare(up, r.data)
    /\ UNCHANGED db

upload_init1 == \E resp \in InitResps : upload_init1_answer(resp)

\* an answer to the second upload-init that is challenged again
upload_init2_answer_ChallengeAgain(resp) ==
    /\ up.pc = "init2"
    /\ LET r == upload_init(resp)
           u == [up EXCEPT !.sign_val = NoSign]
       IN up' = CASE r.err # "" -> UpErr(u, r.err)
                  [] r.err = "" /\ r.data.status = 2 -> fast_upload(u, db, r.data)
                  [] r.err = "" /\ r.data.status \in 6..8 /\ r.data.sign.some -> up
                  [] OTHER -> oss_prepare(u, r.data)
    /\ UNCHANGED db

\* lines 1243-1296: resp answers the upload-init that carries the sign_val
upload_init2_answer(resp) ==
    /\ up.pc = "init2"
    /\ LET r == upload_init(resp)
           u == [up EXCEPT !.sign_val = NoSign]
       IN up' = CASE r.err # "" -> UpErr(u, r.err)
                  [] r.err = "" /\ r.data.status = 2 -> fast_upload(u, db, r.data)
                  [] OTHER -> oss_prepare(u, r.data)
    /\ UNCHANGED db

upload_init2 == \E resp \in InitResps : upload_init2_answer(resp)

\* lines 1298-1320: get_upload_token and the four fields the PUT needs
get_upload_token ==
    /\ up.pc = "token"
    /\ \E r \in {"", "HttpClient", "Open115Api", "Internal: get_token: missing endpoint"} :
         up' = IF r = "" THEN [up EXCEPT !.pc = "put"] ELSE UpErr(up, r)
    /\ UNCHANGED db

\* lines 1322-1356: the answer to the OSS PUT
oss_put_object ==
    /\ up.pc = "put"
    /\ \E b \in PutResps :
         up' = CASE b.kind = "transport" -> UpErr([up EXCEPT !.cb = b], "HttpClient")
                 [] b.kind = "http_error" ->
                       UpErr([up EXCEPT !.cb = b], "Internal: OSS put failed")
                 [] b.kind \notin {"transport", "http_error"} /\ callback_ok(b) ->
                       reconcile([up EXCEPT !.cb = b], db,
                                 FileInfo(b.file_id,
                                          IF b.file_name = "" THEN up.name
                                          ELSE b.file_name,
                                          FALSE, b.file_size, b.pick_code))
                 [] OTHER -> UpErr([up EXCEPT !.cb = b], CallbackMissing)
    /\ UNCHANGED db

\* handle_upload_success, lines 1130-1147: delete_file for one of the selected
\* rows; its error is logged and the loop goes on
delete_dup ==
    /\ up.pc = "delete"
    /\ \E id \in up.dups, remote_ok \in BOOLEAN :
         /\ db' = delete_file(db, id, remote_ok)
         /\ up' = [up EXCEPT !.dups = up.dups \ {id},
                             !.pc = IF up.dups = {id} THEN "insert" ELSE "delete",
                             !.changed = up.changed \/ remote_ok,
                             !.cb = NoCb]

\* handle_upload_success, lines 1150-1163: a plain INSERT, which the primary
\* key rejects when the file_id already has a row
insert_row ==
    /\ up.pc = "insert"
    /\ IF db[up.info.file_id].some
       THEN /\ up' = [UpErr(up, "Internal: DB insert fail") EXCEPT !.cb = NoCb]
            /\ UNCHANGED db
       ELSE /\ db' = [db EXCEPT ![up.info.file_id] =
                        Row(up.parent, up.info.filename, up.info.size,
                            up.info.pick_code)]
            /\ up' = [UpOk(up) EXCEPT !.changed = TRUE, !.cb = NoCb]

\* the caller takes the Result
upload_return ==
    /\ up.pc = "done"
    /\ up' = UpIdle
    /\ UNCHANGED db

(***************************************************************************)
(* The path resolver: find_path_id, ensure_path, create_directory, and the *)
(* listing that fills the cache (fetch_files_from_api, save_files_to_db).  *)
(* A path is the sequence of its non-empty components; None of an          *)
(* Option<String> is NoId.                                                 *)
(***************************************************************************)
Tasks == {"t1", "t2"}
DirIds == {<<7>>, <<1, 2>>}
DirNames == {"r", "k"}
Root == <<0>>
RepoPath == <<"r">>
TypePath == <<"r", "k">>
Paths == {RepoPath, TypePath}

\* the provider's tree: an id is free, live, or gone (a removed node's id is
\* never given out again)
RFree == [st |-> "free", parent_id |-> NoId, name |-> "", is_dir |-> FALSE]
RGone == [st |-> "gone", parent_id |-> NoId, name |-> "", is_dir |-> FALSE]
RNode(p, n, dir) == [st |-> "live", parent_id |-> p, name |-> n, is_dir |-> dir]

remote_has_dir(r, cid) ==
    cid = Root \/ (cid \in DOMAIN r /\ r[cid].st = "live" /\ r[cid].is_dir)
remote_children(r, cid) ==
    {id \in DOMAIN r : r[id].st = "live" /\ r[id].parent_id = cid}
remote_named(r, cid, name) ==
    {id \in remote_children(r, cid) : r[id].name = name}

\* what a task holds of the provider's answer
NoAns == [kind |-> "none", files |-> {}, file_id |-> NoId]
AnsErr == [NoAns EXCEPT !.kind = "err"]
AnsFiles(fs) == [NoAns EXCEPT !.kind = "files", !.files = fs]
AnsCreated(id) == [NoAns EXCEPT !.kind = "created", !.file_id = id]
AnsExists == [NoAns EXCEPT !.kind = "exists"]
AnsRefused == [NoAns EXCEPT !.kind = "refused"]

\* fetch_files_from_api: Err of the pipeline or of the envelope, else the
\* entries of every page as FileInfo
fetch_files_from_api(r, cid) ==
    {AnsErr} \cup
    (IF remote_has_dir(r, cid)
     THEN {AnsFiles({FileInfo(id, r[id].name, r[id].is_dir, 0, "") :
                        id \in remote_children(r, cid)})}
     ELSE {})

\* save_files_to_db: in one transaction delete the rows of this parent, then
\* insert each listed file, updating the row on a file_id conflict
save_files_to_db(d, parent, files) ==
    [id \in DOMAIN d |->
        IF \E f \in files : f.file_id = id
        THEN LET f == CHOOSE f \in files : f.file_id = id
             IN [some |-> TRUE, parent_id |-> parent, name |-> f.filename,
                 is_dir |-> f.is_dir, size |-> f.size, pick_code |-> f.pick_code]
        ELSE IF d[id].some /\ d[id].parent_id = parent THEN NoRow ELSE d[id]]

\* the query of find_path_id and ensure_path for one component: the cached
\* directory rows of this parent and name, max_by_key file_id
dir_child(d, cur, part) ==
    LET res == {id \in DOMAIN d : d[id].some /\ d[id].parent_id = cur
                                  /\ d[id].name = part /\ d[id].is_dir}
    IN IF res = {} THEN NoId
       ELSE CHOOSE x \in res : \A o \in res \ {x} : str_lt(o, x)

\* the walk over the cached components from component i on: where it stops
RECURSIVE walk_cached(_, _, _, _)
walk_cached(d, path, i, cur) ==
    IF i > Len(path) THEN [i |-> i, cur |-> cur]
    ELSE LET n == dir_child(d, cur, path[i])
         IN IF n = NoId THEN [i |-> i, cur |-> cur]
            ELSE walk_cached(d, path, i + 1, n)

\* find_path_id: the empty path is the root "0"; a component missing from the
\* cache gives None; no request is sent
find_path_id(d, path) ==
    LET w == walk_cached(d, path, 1, Root)
    IN IF w.i > Len(path) THEN w.cur ELSE NoId

\* the listing's directory of this name, max_by_key file_id
listed_dir(files, part) ==
    LET res == {f.file_id : f \in {g \in files : g.filename = part /\ g.is_dir}}
    IN IF res = {} THEN NoId
       ELSE CHOOSE x \in res : \A o \in res \ {x} : str_lt(o, x)

\* a call in progress: the operation (op), its path and flag or its type, name
\* and Range header, the component it is at (i) under the directory cur, the
\* answer it holds, the numbers of create-directory and delete requests it
\* has sent, the id an earlier successful call returned for this path (exp),
\* once done its Result (ok, val | err), the handler's HTTP status, length,
\* range and listing, the DELETE this task answered last (prev), and for an
\* upload the same-name rows still to delete (dups) and whether another
\* upload was in progress beside it (overlap), for warm_cache its
\* force_rebuild flag, the level of the directory it is at (lvl) and the
\* directories still to visit (todo, then subs), and of a GET's response the
\* Content-Range header (crange) and the number of bytes of the body, and of
\* an error response the JSON body (json)
NoPrev == [name |-> "", type |-> "", status |-> 0, val |-> NoId]
DtIdle == [pc |-> "idle", op |-> "", path |-> <<>>, flag |-> FALSE, type |-> "",
           name |-> "", hdr |-> [some |-> FALSE, prefix |-> FALSE, parts |-> <<>>],
           i |-> 0, cur |-> NoId, ans |-> NoAns, answer |-> "", creates |-> 0,
           deletes |-> 0, collided |-> FALSE, exp |-> NoId, ok |-> FALSE,
           val |-> NoId, len |-> 0,
           range |-> [kind |-> "none", start |-> 0, end |-> 0],
           err |-> "", status |-> 0, listed |-> {}, prev |-> NoPrev,
           dups |-> {}, overlap |-> FALSE, force |-> FALSE, lvl |-> "",
           todo |-> <<>>, subs |-> {},
           crange |-> [kind |-> "none", start |-> 0, end |-> 0, size |-> 0],
           body |-> 0, json |-> [keys |-> {}, error |-> ""]]
DtOk(q, v) == [q EXCEPT !.pc = "done", !.ok = TRUE, !.val = v, !.ans = NoAns]
DtErr(q, e) == [q EXCEPT !.pc = "done", !.ok = FALSE, !.err = e, !.ans = NoAns]
NoneEnsured == [p \in Paths |-> NoId]

\* delete_many removes a cached row of this parent: what earlier calls
\* returned is no longer promised
RowRemoved(d, parent) == \E id \in DOMAIN d : d[id].some /\ d[id].parent_id = parent
Forget(tasks) == [u \in DOMAIN tasks |-> [tasks[u] EXCEPT !.exp = NoId]]

\* check_remote_before_create is true in warm_cache alone, which runs at
\* startup before any request is served: such a call has no call beside it
AtStartup(t, flag) ==
    IF flag THEN \A u \in Tasks \ {t} : dt[u].pc = "idle"
    ELSE \A u \in Tasks \ {t} : ~dt[u].flag

\* ensure_path: a path the cache resolves is returned at once
ensure_path(t, path, flag) ==
    /\ dt[t].pc = "idle"
    /\ AtStartup(t, flag)
    /\ LET q == [DtIdle EXCEPT !.op = "ensure_path", !.path = path, !.flag = flag,
                               !.exp = ensured[path]]
           id == find_path_id(db, path)
       IN IF id # NoId
          THEN /\ dt' = [dt EXCEPT ![t] = DtOk(q, id)]
               /\ ensured' = [ensured EXCEPT ![path] = id]
          ELSE /\ dt' = [dt EXCEPT ![t] = [q EXCEPT !.pc = "walk", !.i = 1, !.cur = Root]]
               /\ UNCHANGED ensured
    /\ UNCHANGED <<db, remote>>

\* ensure_path, one turn of its loop: cached components are walked; at the
\* first missing one the listing or the create-directory request is sent
ensure_walk(t) ==
    /\ dt[t].pc = "walk"
    /\ LET q == dt[t]
           w == walk_cached(db, q.path, q.i, q.cur)
       IN IF w.i > Len(q.path)
          THEN /\ dt' = [dt EXCEPT ![t] = DtOk([q EXCEPT !.i = w.i, !.cur = w.cur], w.cur)]
               /\ ensured' = IF q.op = "ensure_path"
                             THEN [ensured EXCEPT ![q.path] = w.cur] ELSE ensured
          ELSE /\ dt' = [dt EXCEPT ![t] =
                           IF q.flag
                           THEN [q EXCEPT !.pc = "list", !.i = w.i, !.cur = w.cur]
                           ELSE [q EXCEPT !.pc = "mkdir", !.i = w.i, !.cur = w.cur,
                                          !.creates = @ + 1]]
               /\ UNCHANGED ensured
    /\ UNCHANGED <<db, remote>>

\* the provider answers GET /open/ufile/files
remote_list(t) ==
    /\ dt[t].pc = "list"
    /\ \E a \in fetch_files_from_api(remote, dt[t].cur) :
          dt' = [dt EXCEPT ![t] = [@ EXCEPT !.pc = "listed", !.ans = a]]
    /\ UNCHANGED <<db, remote, ensured>>

\* ensure_path with check_remote_before_create: the listing is saved; its
\* directory of this name is taken, else create_directory is called
ensure_listed(t) ==
    /\ dt[t].pc = "listed" /\ dt[t].op = "ensure_path"
    /\ LET q == dt[t]
       IN IF q.ans.kind = "err"
          THEN /\ dt' = [dt EXCEPT ![t] = DtErr(q, "Open115Api")]
               /\ UNCHANGED <<db, ensured>>
          ELSE /\ db' = save_files_to_db(db, q.cur, q.ans.files)
               /\ LET n == listed_dir(q.ans.files, q.path[q.i])
                      old == IF RowRemoved(db, q.cur) THEN Forget(dt) ELSE dt
                  IN dt' = [old EXCEPT ![t] =
                              IF n # NoId
                              THEN [@ EXCEPT !.pc = "walk", !.i = @ + 1, !.cur = n,
                                             !.ans = NoAns]
                              ELSE [@ EXCEPT !.pc = "mkdir", !.ans = NoAns,
                                             !.creates = @ + 1]]
               /\ ensured' = IF RowRemoved(db, q.cur)
                             THEN [p \in DOMAIN ensured |-> NoId] ELSE ensured
    /\ UNCHANGED remote

\* the provider answers POST /open/folder/add: a name this parent already
\* has is refused as existing; else the directory is made under a new id
remote_mkdir(t) ==
    /\ dt[t].pc = "mkdir"
    /\ LET q == dt[t]
           free == {id \in DOMAIN remote : remote[id].st = "free"}
       IN \/ /\ dt' = [dt EXCEPT ![t] = [q EXCEPT !.pc = "made", !.ans = AnsErr]]
             /\ UNCHANGED remote
          \/ /\ remote_named(remote, q.cur, q.path[q.i]) # {}
             /\ dt' = [dt EXCEPT ![t] = [q EXCEPT !.pc = "made", !.ans = AnsExists]]
             /\ UNCHANGED remote
          \/ /\ remote_named(remote, q.cur, q.path[q.i]) = {}
             /\ ~remote_has_dir(remote, q.cur) \/ free = {}
             /\ dt' = [dt EXCEPT ![t] = [q EXCEPT !.pc = "made", !.ans = AnsRefused]]
             /\ UNCHANGED remote
          \/ /\ remote_named(remote, q.cur, q.path[q.i]) = {}
             /\ remote_has_dir(remote, q.cur)
             /\ \E id \in free, told \in BOOLEAN :
                   /\ remote' = [remote EXCEPT ![id] = RNode(q.cur, q.path[q.i], TRUE)]
                   /\ dt' = [dt EXCEPT ![t] =
                               [q EXCEPT !.pc = "made",
                                         !.ans = AnsCreated(IF told THEN id ELSE NoId)]]
    /\ UNCHANGED <<db, ensured>>

\* the row create_directory inserts for the new directory
dir_row_AsFile(pid, name) ==
    [some |-> TRUE, parent_id |-> pid, name |-> name, is_dir |-> FALSE,
     size |-> 0, pick_code |-> ""]
dir_row(pid, name) ==
    [some |-> TRUE, parent_id |-> pid, name |-> name, is_dir |-> TRUE,
     size |-> 0, pick_code |-> ""]

\* create_directory after the answer: an Err of the pipeline is returned; a
\* refusal is absorbed when find_file gives a cached directory of this name;
\* a success without file_id is an Err; else the row is inserted
create_directory(t) ==
    /\ dt[t].pc = "made"
    /\ LET q == dt[t]
           existing == find_file(db, q.cur, q.path[q.i])
       IN CASE q.ans.kind = "err" ->
                 /\ dt' = [dt EXCEPT ![t] = DtErr(q, "HttpClient")]
                 /\ UNCHANGED db
            [] q.ans.kind \in {"exists", "refused"} ->
                 /\ dt' = [dt EXCEPT ![t] =
                             IF existing.some /\ existing.is_dir
                             THEN [q EXCEPT !.pc = "walk", !.i = @ + 1,
                                            !.cur = existing.file_id, !.ans = NoAns,
                                            !.collided = (q.ans.kind = "exists")]
                             ELSE [DtErr(q, "Open115Api") EXCEPT
                                      !.collided = (q.ans.kind = "exists")]]
                 /\ UNCHANGED db
            [] q.ans.kind = "created" /\ q.ans.file_id = NoId ->
                 /\ dt' = [dt EXCEPT ![t] = DtErr(q, "mkdir succeeded but no file_id")]
                 /\ UNCHANGED db
            [] q.ans.kind = "created" /\ q.ans.file_id # NoId ->
                 IF db[q.ans.file_id].some
                 THEN /\ dt' = [dt EXCEPT ![t] = DtErr(q, "DB create_dir fail")]
                      /\ UNCHANGED db
                 ELSE /\ db' = [db EXCEPT ![q.ans.file_id] = dir_row(q.cur, q.path[q.i])]
                      /\ dt' = [dt EXCEPT ![t] =
                                  [q EXCEPT !.pc = "walk", !.i = @ + 1,
                                            !.cur = q.ans.file_id, !.ans = NoAns]]
    /\ UNCHANGED <<remote, ensured>>

\* the caller takes the Result
task_return(t) ==
    /\ dt[t].pc = "done"
    /\ dt' = [dt EXCEPT ![t] =
                [DtIdle EXCEPT !.prev =
                    IF dt[t].op = "delete"
                    THEN [name |-> dt[t].name, type |-> dt[t].type,
                          status |-> dt[t].status, val |-> dt[t].val]
                    ELSE NoPrev]]
    /\ UNCHANGED <<db, remote, ensured>>

\* another writer of the same account makes a directory
other_mkdir(p, n) ==
    /\ remote_has_dir(remote, p)
    /\ remote_named(remote, p, n) = {}
    /\ \E id \in {x \in DOMAIN remote : remote[x].st = "free"} :
          remote' = [remote EXCEPT ![id] = RNode(p, n, TRUE)]
    /\ UNCHANGED <<db, dt, ensured>>

(***************************************************************************)
(* The REST handlers of restic/handler.rs on one file: HEAD, GET (with a   *)
(* Range header), DELETE, the listing of a type, and get_type_dir_id /     *)
(* get_data_file_dir_id, by which POST resolves its directory.             *)
(***************************************************************************)
Types == {"k", "d", "x"}

\* data_subdir_prefix: &filename[..2.min(filename.len())], on names of
\* one-byte characters
data_subdir_prefix(filename) == SubSeq(filename, 1, Min(2, Len(filename)))

\* the directory of a file: repo_path/data/<prefix> for data, else
\* repo_path/<dirname>
dir_path(type, name) ==
    IF type = "d" THEN RepoPath \o <<"d", data_subdir_prefix(name)>>
    ELSE RepoPath \o <<type>>
RestPaths == {dir_path(ty, n) : ty \in {"k", "d"}, n \in Names}

\* a Range header: after "bytes=" (prefix) its parts between '-' signs, each
\* a sequence of characters: the digits 0..9, and 10 for any other character
NonDigit == 10
NoRange == [some |-> FALSE, prefix |-> FALSE, parts |-> <<>>]
RangeHdr(pre, ps) == [some |-> TRUE, prefix |-> pre, parts |-> ps]

\* str::parse::<u64>: one digit at least and digits only
RECURSIVE digits_value(_)
digits_value(s) ==
    IF s = <<>> THEN 0
    ELSE 10 * digits_value(SubSeq(s, 1, Len(s) - 1)) + s[Len(s)]
parse_u64(s) ==
    IF s # <<>> /\ \A i \in 1..Len(s) : s[i] < NonDigit
    THEN Some(digits_value(s)) ELSE NoneInt

saturating_sub(a, b) == IF b > a THEN 0 ELSE a - b

RangeInvalid == [kind |-> "Invalid", start |-> 0, end |-> 0]
RangeUnsatisfiable == [kind |-> "Unsatisfiable", start |-> 0, end |-> 0]
RangeOk(s, e) == [kind |-> "Ok", start |-> s, end |-> e]
\* Content-Range: "bytes {start}-{end}/{size}" and "bytes */{size}"
ContentRange(start, end, size) ==
    [kind |-> "range", start |-> start, end |-> end, size |-> size]
ContentRangeStar(size) == [kind |-> "star", start |-> 0, end |-> 0, size |-> size]

RangeNone == [kind |-> "none", start |-> 0, end |-> 0]

\* a parse that accepts a start at or past the end of the file
parse_range_StartPastEnd(h, file_size) ==
    IF ~h.prefix \/ Len(h.parts) # 2 THEN RangeInvalid
    ELSE IF file_size = 0 THEN RangeUnsatisfiable
    ELSE LET p0 == h.parts[1]
             p1 == h.parts[2]
             suffix_len == parse_u64(p1)
             start == IF p0 = <<>>
                      THEN (IF suffix_len.some
                            THEN Some(saturating_sub(file_size, suffix_len.v))
                            ELSE NoneInt)
                      ELSE parse_u64(p0)
             end == IF p1 = <<>> THEN Some(file_size - 1) ELSE parse_u64(p1)
         IN IF ~start.some \/ ~end.some THEN RangeInvalid
            ELSE IF start.v <= end.v
                 THEN RangeOk(start.v, Min(end.v, file_size - 1))
                 ELSE RangeUnsatisfiable

\* parse_range without the clamp of end to the last byte
parse_range_NoClamp(h, file_size) ==
    IF ~h.prefix \/ Len(h.parts) # 2 THEN RangeInvalid
    ELSE IF file_size = 0 THEN RangeUnsatisfiable
    ELSE LET p0 == h.parts[1]
             p1 == h.parts[2]
             suffix_len == parse_u64(p1)
             start == IF p0 = <<>>
                      THEN (IF suffix_len.some
                            THEN Some(saturating_sub(file_size, suffix_len.v))
                            ELSE NoneInt)
                      ELSE parse_u64(p0)
             end == IF p1 = <<>> THEN Some(file_size - 1) ELSE parse_u64(p1)
         IN IF ~start.some \/ ~end.some THEN RangeInvalid
            ELSE IF start.v <= end.v /\ start.v < file_size
                 THEN RangeOk(start.v, end.v)
                 ELSE RangeUnsatisfiable

\* parse_range that calls a range past the end of the file invalid
parse_range_PastEndInvalid(h, file_size) ==
    IF ~h.prefix \/ Len(h.parts) # 2 THEN RangeInvalid
    ELSE LET p0 == h.parts[1]
             p1 == h.parts[2]
             start == IF p0 = <<>> THEN Some(0) ELSE parse_u64(p0)
             end == IF p1 = <<>> THEN Some(file_size) ELSE parse_u64(p1)
         IN IF ~start.some \/ ~end.some THEN RangeInvalid
            ELSE IF start.v <= end.v /\ start.v < file_size
                 THEN RangeOk(start.v, Min(end.v, file_size - 1))
                 ELSE RangeInvalid

\* parse_range
parse_range(h, file_size) ==
    IF ~h.prefix \/ Len(h.parts) # 2 THEN RangeInvalid
    ELSE IF file_size = 0 THEN RangeUnsatisfiable
    ELSE LET p0 == h.parts[1]
             p1 == h.parts[2]
             suffix_len == parse_u64(p1)
             start == IF p0 = <<>>
                      THEN (IF suffix_len.some
                            THEN Some(saturating_sub(file_size, suffix_len.v))
                            ELSE NoneInt)
                      ELSE parse_u64(p0)
             end == IF p1 = <<>> THEN Some(file_size - 1) ELSE parse_u64(p1)
         IN IF ~start.some \/ ~end.some THEN RangeInvalid
            ELSE IF start.v <= end.v /\ start.v < file_size
                 THEN RangeOk(start.v, Min(end.v, file_size - 1))
                 ELSE RangeUnsatisfiable

\* get_file_info_with_fallback: the local exact-name lookup
get_file_info_with_fallback(d, dir_id, name, allow_list_fallback) ==
    find_file(d, dir_id, name)

\* the directory resolved as get_type_dir_id does, creating what is missing
find_dir_id_Ensures(d, type, name) ==
    [id |-> find_path_id(d, dir_path(type, name)),
     creates |-> IF find_path_id(d, dir_path(type, name)) = NoId THEN 1 ELSE 0]
\* find_type_dir_id and find_data_file_dir_id: the id find_path_id gives and
\* the create-directory requests sent for it
find_dir_id(d, type, name) ==
    [id |-> find_path_id(d, dir_path(type, name)), creates |-> 0]

\* a handler's call and its response
Req(t, op, type, name) ==
    [DtIdle EXCEPT !.op = op, !.type = type, !.name = name, !.prev = dt[t].prev]
Respond(q, status) == [q EXCEPT !.pc = "done", !.status = status]

\* HEAD /{type}/{name}
head_file(t, type, name) ==
    /\ dt[t].pc = "idle"
    /\ LET q == Req(t, "head", type, name)
           dir == find_dir_id(db, type, name)
           file == get_file_info_with_fallback(db, dir.id, name, type # "d")
       IN dt' = [dt EXCEPT ![t] =
                   IF type = "x" THEN Respond(q, 400)
                   ELSE IF dir.id = NoId
                        THEN Respond([q EXCEPT !.creates = dir.creates], 404)
                   ELSE IF file.some
                        THEN Respond([q EXCEPT !.val = file.file_id, !.len = file.size], 200)
                        ELSE Respond(q, 404)]
    /\ UNCHANGED <<db, remote, ensured>>

\* GET /{type}/{name}, up to the download
get_file(t, type, name, hdr) ==
    /\ dt[t].pc = "idle"
    /\ LET q == [Req(t, "get", type, name) EXCEPT !.hdr = hdr]
           dir == find_dir_id(db, type, name)
           file == get_file_info_with_fallback(db, dir.id, name, type # "d")
           r == parse_range(hdr, file.size)
       IN dt' = [dt EXCEPT ![t] =
                   IF type = "x" THEN Respond(q, 400)
                   ELSE IF dir.id = NoId
                        THEN Respond([q EXCEPT !.creates = dir.creates], 404)
                   ELSE IF ~file.some THEN Respond(q, 404)
                   ELSE IF ~hdr.some
                        THEN [q EXCEPT !.pc = "download", !.val = file.file_id,
                                       !.len = file.size]
                   ELSE IF r.kind = "Invalid" THEN Respond(q, 400)
                   ELSE IF r.kind = "Unsatisfiable"
                        THEN Respond([q EXCEPT !.len = file.size,
                                               !.crange = ContentRangeStar(file.size),
                                               !.body = 0], 416)
                   ELSE [q EXCEPT !.pc = "download", !.val = file.file_id,
                                  !.len = file.size, !.range = r]]
    /\ UNCHANGED <<db, remote, ensured>>

\* download_file answers: the bytes the Range header asked for (the whole
\* file without one), or an Err of get_download_url or of the download
download_file(t) ==
    /\ dt[t].pc = "download"
    /\ LET q == dt[t]
       IN \E a \in {"bytes", "Open115Api", "Internal"} :
             dt' = [dt EXCEPT ![t] =
                      CASE a = "Open115Api" -> Respond(DtErr(q, a), 502)
                        [] a = "Internal" -> Respond(DtErr(q, a), 500)
                        [] OTHER ->
                             IF q.range.kind = "Ok"
                             THEN [Respond(q, 206) EXCEPT
                                     !.ok = TRUE,
                                     !.crange = ContentRange(q.range.start,
                                                             q.range.end, q.len),
                                     !.body = q.range.end - q.range.start + 1]
                             ELSE [Respond(q, 200) EXCEPT !.ok = TRUE,
                                                          !.body = q.len]]
    /\ UNCHANGED <<db, remote, ensured>>

\* the types GET /{type}/ can be asked for: the valid ones, "config" ("c")
\* and an unknown one ("x")
ListTypes == Types \cup {"c"}

\* GET /{type}/: the files of the type's directory, of every shard for data,
\* as a JSON array with one {name, size} entry for each file (len entries)
list_files_of_type(t, type) ==
    /\ dt[t].pc = "idle"
    /\ LET q == Req(t, "list", type, "")
           dir == find_dir_id(db, type, "")
           data_id == find_path_id(db, RepoPath \o <<"d">>)
           shards == {s \in list_files(db, data_id) : s.is_dir}
           files == IF type = "d"
                    THEN IF data_id = NoId THEN {}
                         ELSE UNION {list_files(db, s.file_id) : s \in shards}
                    ELSE IF dir.id = NoId THEN {} ELSE list_files(db, dir.id)
           entries == {[name |-> f.filename, size |-> f.size] :
                          f \in {g \in files : ~g.is_dir}}
       IN dt' = [dt EXCEPT ![t] =
                   IF type \in {"x", "c"} THEN Respond(q, 400)
                   ELSE Respond([q EXCEPT !.listed = entries,
                                          !.len = Cardinality({g \in files : ~g.is_dir}),
                                          !.creates = IF type = "d" THEN 0 ELSE dir.creates],
                                200)]
    /\ UNCHANGED <<db, remote, ensured>>

\* DELETE /{type}/{name}, up to the remote delete
handle_delete(t, type, name) ==
    /\ dt[t].pc = "idle"
    /\ LET q == Req(t, "delete", type, name)
           dir == find_dir_id(db, type, name)
           file == get_file_info_with_fallback(db, dir.id, name, type # "d")
       IN dt' = [dt EXCEPT ![t] =
                   IF type = "x" THEN Respond(q, 400)
                   ELSE IF dir.id = NoId
                        THEN Respond([q EXCEPT !.creates = dir.creates], 200)
                   ELSE IF ~file.some THEN Respond(q, 200)
                   ELSE [q EXCEPT !.pc = "delete", !.cur = dir.id,
                                  !.val = file.file_id, !.deletes = @ + 1]]
    /\ UNCHANGED <<db, remote, ensured>>

\* Open115Client::delete_file after POST /open/ufile/delete: an Err of the
\* pipeline is returned; any answer removes the row: the delete accepted,
\* refused because the target is absent, or refused for another reason
\* ("limited": a rate-limit code that the last attempt still got)
remote_delete(t) ==
    /\ dt[t].pc = "delete"
    /\ \E a \in {"accepted", "refused", "limited", "HttpClient"} :
          /\ db' = delete_file(db, dt[t].val, a # "HttpClient")
          /\ dt' = [dt EXCEPT ![t] =
                      IF a = "HttpClient" THEN Respond(DtErr(@, a), 502)
                      ELSE Respond([@ EXCEPT !.answer = a], 200)]
    /\ UNCHANGED <<remote, ensured>>

(***************************************************************************)
(* Calls of the client that run side by side: get_file_info, and           *)
(* upload_file from the provider's answer on (handle_upload_success).      *)
(***************************************************************************)
\* get_file_info(dir_id, name) = find_file(dir_id, name): the call and its
\* Option<FileInfo> (ok: Some; val, len: the row's file_id and size)
get_file_info(t, cid, name) ==
    /\ dt[t].pc = "idle"
    /\ LET f == find_file(db, cid, name)
           q == [DtIdle EXCEPT !.op = "find", !.cur = cid, !.name = name]
       IN dt' = [dt EXCEPT ![t] =
                   [q EXCEPT !.pc = "done", !.ok = f.some, !.val = f.file_id,
                             !.len = f.size]]
    /\ UNCHANGED <<db, remote, ensured>>

\* upload_file, lines 1166-1177: the hashes are computed and upload-init is
\* sent; the call now waits for the provider
upload_begin(t, p, n, l) ==
    /\ dt[t].pc = "idle"
    /\ LET beside == {u \in Tasks \ {t} : dt[u].op = "upload" /\ dt[u].pc # "done"}
       IN dt' = [u \in Tasks |->
                   IF u = t
                   THEN [DtIdle EXCEPT !.pc = "init", !.op = "upload", !.cur = p,
                                       !.name = n, !.len = l,
                                       !.overlap = (beside # {})]
                   ELSE IF u \in beside THEN [dt[u] EXCEPT !.overlap = TRUE]
                   ELSE dt[u]]
    /\ UNCHANGED <<db, remote, ensured>>

\* upload_file, lines 1173-1221, and handle_upload_success, lines 1122-1128:
\* the provider answers with an error, or with status 2 and the file_id it
\* gave the upload; reconciliation starts by selecting the rows of the same
\* parent and name with another file_id
handle_upload_success(t) ==
    /\ dt[t].pc = "init"
    /\ \E id \in Ids \cup {NoId} :
         LET q == dt[t]
             to_delete == {x \in DOMAIN db : /\ db[x].some
                                            /\ db[x].parent_id = q.cur
                                            /\ db[x].name = q.name
                                            /\ x # id}
         IN dt' = [dt EXCEPT ![t] =
                     IF id = NoId THEN DtErr(q, "Open115Api")
                     ELSE [q EXCEPT !.pc = IF to_delete = {} THEN "insert"
                                           ELSE "delete",
                                    !.val = id, !.dups = to_delete]]
    /\ UNCHANGED <<db, remote, ensured>>

\* handle_upload_success, lines 1130-1147: delete_file for one of the selected
\* rows; its error is logged and the loop goes on
dup_delete(t) ==
    /\ dt[t].pc = "delete"
    /\ \E id \in dt[t].dups, remote_ok \in BOOLEAN :
         /\ db' = delete_file(db, id, remote_ok)
         /\ dt' = [dt EXCEPT ![t] =
                     [@ EXCEPT !.dups = @ \ {id},
                               !.pc = IF dt[t].dups = {id} THEN "insert"
                                      ELSE "delete",
                               !.deletes = IF @ < 2 THEN @ + 1 ELSE @]]
    /\ UNCHANGED <<remote, ensured>>

\* handle_upload_success, lines 1150-1163: a plain INSERT, which the primary
\* key rejects when the file_id already has a row
dup_insert(t) ==
    /\ dt[t].pc = "insert"
    /\ LET q == dt[t]
       IN IF db[q.val].some
          THEN /\ dt' = [dt EXCEPT ![t] =
                           [q EXCEPT !.pc = "done", !.ok = FALSE,
                                     !.err = "Internal: DB insert fail"]]
               /\ UNCHANGED db
          ELSE /\ db' = [db EXCEPT ![q.val] = Row(q.cur, q.name, q.len, "pc")]
               /\ dt' = [dt EXCEPT ![t] = [q EXCEPT !.pc = "done", !.ok = TRUE]]
    /\ UNCHANGED <<remote, ensured>>

(***************************************************************************)
(* warm_cache: the repository root by ensure_path(repo_path, true), then   *)
(* fetch_or_use_cache for the root, for each type directory found in the   *)
(* root's listing, for the data directory and for each of its              *)
(* subdirectories.                                                         *)
(***************************************************************************)
\* a count that finds no row
cache_has_children_Never(d, parent_id) == FALSE

\* cache_has_children: count(ParentId.eq(parent_id)) > 0
cache_has_children(d, parent_id) ==
    \E id \in DOMAIN d : d[id].some /\ d[id].parent_id = parent_id

\* the directories the loop takes from the root's listing: the type
\* directories in their order, then the data directory
warm_todo(q, files) ==
    IF q.lvl = "root"
    THEN (IF listed_dir(files, "k") # NoId
          THEN <<[id |-> listed_dir(files, "k"), lvl |-> "type"]>> ELSE <<>>)
         \o (IF listed_dir(files, "d") # NoId
             THEN <<[id |-> listed_dir(files, "d"), lvl |-> "data"]>> ELSE <<>>)
    ELSE q.todo

\* the subdirectories of the data directory
warm_subs(q, files) ==
    IF q.lvl = "data" THEN {f.file_id : f \in {g \in files : g.is_dir}}
    ELSE q.subs

\* what is left to choose from: the next subdirectory, in the listing's order
warm_choice(q, files) ==
    IF warm_todo(q, files) = <<>> /\ warm_subs(q, files) # {}
    THEN warm_subs(q, files) ELSE {NoId}

\* the loop goes on with the next directory, or warm_cache returns Ok
warm_next(q, files, s) ==
    LET todo == warm_todo(q, files)
        subs == warm_subs(q, files)
    IN IF todo # <<>>
       THEN [q EXCEPT !.pc = "fetch", !.cur = Head(todo).id,
                      !.lvl = Head(todo).lvl, !.todo = Tail(todo),
                      !.subs = subs, !.ans = NoAns]
       ELSE IF subs # {}
       THEN [q EXCEPT !.pc = "fetch", !.cur = s, !.lvl = "sub",
                      !.todo = <<>>, !.subs = subs \ {s}, !.ans = NoAns]
       ELSE [q EXCEPT !.pc = "done", !.ok = TRUE, !.todo = <<>>, !.subs = {},
                      !.ans = NoAns]

\* warm_cache, lines 127-134: ensure_path(repo_path, true) has returned; its
\* Err is returned, its id is the first directory to fetch
warm_cache(t, force_rebuild) ==
    /\ dt[t].pc = "done" /\ dt[t].op = "ensure_path"
    /\ dt[t].path = RepoPath /\ dt[t].flag
    /\ LET q == dt[t]
       IN dt' = [dt EXCEPT ![t] =
                   IF ~q.ok THEN [q EXCEPT !.op = "warm_cache"]
                   ELSE [q EXCEPT !.op = "warm_cache", !.pc = "fetch",
                                  !.ok = FALSE, !.cur = q.val, !.lvl = "root",
                                  !.force = force_rebuild]]
    /\ UNCHANGED <<db, remote, ensured>>

\* fetch_or_use_cache, lines 217-241: without force_rebuild a directory with
\* cached children is read from the cache; else the listing is requested
fetch_or_use_cache(t) ==
    /\ dt[t].pc = "fetch" /\ dt[t].op = "warm_cache"
    /\ LET q == dt[t]
       IN IF ~q.force /\ cache_has_children(db, q.cur)
          THEN \E s \in warm_choice(q, list_files(db, q.cur)) :
                  dt' = [dt EXCEPT ![t] = warm_next(q, list_files(db, q.cur), s)]
          ELSE dt' = [dt EXCEPT ![t] = [q EXCEPT !.pc = "list"]]
    /\ UNCHANGED <<db, remote, ensured>>

\* fetch_or_use_cache, lines 243-245: the listing's Err is returned; else
\* the listing is saved and the loop goes on
warm_listed(t) ==
    /\ dt[t].pc = "listed" /\ dt[t].op = "warm_cache"
    /\ LET q == dt[t]
       IN IF q.ans.kind = "err"
          THEN /\ dt' = [dt EXCEPT ![t] = DtErr(q, "Open115Api")]
               /\ UNCHANGED db
          ELSE /\ db' = save_files_to_db(db, q.cur, q.ans.files)
               /\ \E s \in warm_choice(q, q.ans.files) :
                     dt' = [dt EXCEPT ![t] = warm_next(q, q.ans.files, s)]
    /\ UNCHANGED <<remote, ensured>>

\* whether node x lies in the subtree of node id
RECURSIVE remote_under(_, _, _)
remote_under(r, x, id) ==
    IF x = id THEN TRUE
    ELSE IF x \notin DOMAIN r \/ r[x].st # "live" THEN FALSE
    ELSE remote_under(r, r[x].parent_id, id)

\* another writer of the same account removes a directory with all it holds
other_remove(id) ==
    /\ remote[id].st = "live"
    /\ remote' = [x \in DOMAIN remote |->
                    IF remote_under(remote, x, id) THEN RGone ELSE remote[x]]
    /\ UNCHANGED <<db, dt, ensured>>

(***************************************************************************)
(* error.rs: AppError and its IntoResponse.  An error is its variant       *)
(* (kind), the code of an Open115Api error, and the message: the message   *)
(* field of Open115Api, the String of Auth, NotFound, BadRequest and       *)
(* Internal, and e.to_string() of HttpClient, Io and Json.                 *)
(***************************************************************************)
CodeQuotaStatus == 406
AppErrorKinds == {"Open115Api", "HttpClient", "Auth", "NotFound", "BadRequest",
                  "Io", "Json", "Internal"}
ApiCodes == {-1, 5, CodeQuotaStatus, CodeQuotaStatus + 1}
Messages == {"", "m"}
AppError(kind, code, message) == [kind |-> kind, code |-> code, message |-> message]
AppErrors ==
    {AppError("Open115Api", c, m) : c \in ApiCodes, m \in Messages}
    \cup {AppError(k, 0, m) : k \in AppErrorKinds \ {"Open115Api"}, m \in Messages}

\* Json(json!({ "error": message }))
ErrorBody(message) == [keys |-> {"error"}, error |-> message]

\* into_response as it was before JSON errors were moved to 502
into_response_JsonBadRequest(e) ==
    [status |-> CASE e.kind = "Open115Api" ->
                       (IF e.code = CodeQuotaStatus THEN 429 ELSE 502)
                  [] e.kind = "HttpClient" -> 502
                  [] e.kind = "Auth" -> 401
                  [] e.kind = "NotFound" -> 404
                  [] e.kind = "BadRequest" -> 400
                  [] e.kind = "Io" -> 500
                  [] e.kind = "Json" -> 400
                  [] e.kind = "Internal" -> 500,
     json |-> ErrorBody(e.message)]

\* AppError::into_response: the status of each variant and the body
into_response(e) ==
    [status |-> CASE e.kind = "Open115Api" ->
                       (IF e.code = CodeQuotaStatus THEN 429 ELSE 502)
                  [] e.kind = "HttpClient" -> 502
                  [] e.kind = "Auth" -> 401
                  [] e.kind = "NotFound" -> 404
                  [] e.kind = "BadRequest" -> 400
                  [] e.kind = "Io" -> 500
                  [] e.kind = "Json" -> 502
                  [] e.kind = "Internal" -> 500,
     json |-> ErrorBody(e.message)]

\* a handler returns Err(e): axum answers with e.into_response()
handler_err(t, e) ==
    /\ dt[t].pc = "idle"
    /\ dt' = [dt EXCEPT ![t] =
                [DtIdle EXCEPT !.pc = "done", !.op = "err", !.err = e.kind,
                               !.i = e.code, !.answer = e.message,
                               !.status = into_response(e).status,
                               !.json = into_response(e).json]]
    /\ UNCHANGED <<db, remote, ensured>>

(***************************************************************************)
(* POST /{type}/{name}: the directory by get_data_file_dir_id or           *)
(* get_type_dir_id (ensure_path without the remote check), then            *)
(* upload_file into it.                                                    *)
(***************************************************************************)
\* the error a failed step of the handler returns
post_error(err, code) ==
    IF err \in {"HttpClient", "Open115Api"} THEN AppError(err, code, err)
    ELSE AppError("Internal", 0, err)

\* post_file, lines 377-396: the type is parsed and the directory is looked
\* up in the cache; a missing component starts ensure_path's loop
post_file(t, type, name) ==
    /\ dt[t].pc = "idle"
    /\ LET q == Req(t, "post", type, name)
           bad == into_response(AppError("BadRequest", 0, "m"))
       IN IF type = "x"
          THEN dt' = [dt EXCEPT ![t] =
                        Respond([q EXCEPT !.json = bad.json], bad.status)]
          ELSE LET w == [q EXCEPT !.path = dir_path(type, name)]
                   id == find_path_id(db, w.path)
               IN dt' = [dt EXCEPT ![t] =
                           IF id # NoId THEN DtOk(w, id)
                           ELSE [w EXCEPT !.pc = "walk", !.i = 1, !.cur = Root]]
    /\ UNCHANGED <<db, remote, ensured, up>>

\* post_file, lines 392-396: the Err of the directory is returned
post_failed(t) ==
    /\ dt[t].op = "post" /\ dt[t].pc = "done" /\ dt[t].status = 0 /\ ~dt[t].ok
    /\ \E code \in ApiCodes :
         LET r == into_response(post_error(dt[t].err, code))
         IN dt' = [dt EXCEPT ![t] = Respond([@ EXCEPT !.json = r.json], r.status)]
    /\ UNCHANGED <<db, remote, ensured, up>>

\* post_file, lines 398-400: upload_file(dir_id, name, body) is called
post_upload(t, l) ==
    /\ dt[t].op = "post" /\ dt[t].pc = "done" /\ dt[t].status = 0 /\ dt[t].ok
    /\ upload_file(dt[t].val, dt[t].name, l)
    /\ dt' = [dt EXCEPT ![t] = [@ EXCEPT !.pc = "uploading", !.len = l]]
    /\ UNCHANGED <<remote, ensured>>

\* post_file, lines 398-401: the Err of upload_file is returned, else 200
post_return(t) ==
    /\ dt[t].op = "post" /\ dt[t].pc = "uploading" /\ up.pc = "done"
    /\ \E code \in ApiCodes :
         LET r == into_response(post_error(up.err, code))
         IN dt' = [dt EXCEPT ![t] =
                     IF up.ok THEN Respond(@, 200)
                     ELSE Respond([@ EXCEPT !.ok = FALSE, !.err = up.err,
                                            !.json = r.json], r.status)]
    /\ up' = UpIdle
    /\ UNCHANGED <<db, remote, ensured>>

\* the state of the resolver before any call
RemoteEmpty == [id \in DirIds |-> RFree]
DtInit == [t \in Tasks |-> DtIdle]

(***************************************************************************)
(* The specifications.                                                     *)
(***************************************************************************)
InitToken ==
    /\ token \in {TokenManager_new(a, r) : a \in BOOLEAN, r \in BOOLEAN}
    /\ now = 0
    /\ rf = [c \in Callers |-> IdleTask]
    /\ rq = RqIdle
    /\ db = DbEmpty
    /\ up = UpIdle
    /\ remote = RemoteEmpty /\ dt = DtInit /\ ensured = NoneEnsured

NextToken ==
    \/ \E c \in Callers : get_token(c) /\ UNCHANGED <<rq, db, up, dirVars>>
    \/ \E c \in Callers : refresh_token(c) /\ UNCHANGED <<rq, db, up, dirVars>>
    \/ \E c \in Callers : refresh_recv(c) /\ UNCHANGED <<rq, db, up, dirVars>>
    \/ \E c \in Callers : refresh_wake(c) /\ UNCHANGED <<rq, db, up, dirVars>>
    \/ \E c \in Callers : refresh_return(c) /\ UNCHANGED <<rq, db, up, dirVars>>
    \/ Tick /\ UNCHANGED <<rq, db, up, dirVars>>

SpecToken == InitToken /\ [][NextToken]_vars

InitPipe ==
    /\ token \in {TokenManager_new(a, r) : a \in BOOLEAN, r \in BOOLEAN}
    /\ now = 0
    /\ rf = [c \in Callers |-> IdleTask]
    /\ rq = RqIdle
    /\ db = DbEmpty
    /\ up = UpIdle
    /\ remote = RemoteEmpty /\ dt = DtInit /\ ensured = NoneEnsured

NextPipe ==
    \/ pipe_call /\ UNCHANGED <<db, up, dirVars>>
    \/ pipe_dispatch /\ UNCHANGED <<db, up, dirVars>>
    \/ pipe_recv /\ UNCHANGED <<db, up, dirVars>>
    \/ pipe_wake /\ UNCHANGED <<db, up, dirVars>>
    \/ pipe_refresh /\ UNCHANGED <<db, up, dirVars>>
    \/ pipe_recv2 /\ UNCHANGED <<db, up, dirVars>>
    \/ pipe_return /\ UNCHANGED <<db, up, dirVars>>
    \/ Tick /\ UNCHANGED <<rq, db, up, dirVars>>

SpecPipe == InitPipe /\ [][NextPipe]_vars

\* the pipeline with its steps taken, at one instant of the clock: the task
\* is polled until it returns, every dispatch is answered or fails, and every
\* sleep ends
PipeSteps ==
    pipe_dispatch \/ pipe_recv \/ pipe_wake \/ pipe_refresh \/ pipe_recv2
NextPipeLive ==
    \/ pipe_call /\ UNCHANGED <<db, up, dirVars>>
    \/ pipe_dispatch /\ UNCHANGED <<db, up, dirVars>>
    \/ pipe_recv /\ UNCHANGED <<db, up, dirVars>>
    \/ pipe_wake /\ UNCHANGED <<db, up, dirVars>>
    \/ pipe_refresh /\ UNCHANGED <<db, up, dirVars>>
    \/ pipe_recv2 /\ UNCHANGED <<db, up, dirVars>>
    \/ pipe_return /\ UNCHANGED <<db, up, dirVars>>
SpecPipeLive ==
    /\ InitPipe
    /\ [][NextPipeLive]_vars
    /\ WF_vars(PipeSteps /\ UNCHANGED <<db, up, dirVars>>)

\* refresh_token and request_with_retry with their sleeps, at one instant of
\* the clock: a task calls refresh_token while the pipeline's task is idle or
\* asleep, and the pipeline's task runs while no refresh is under way
Refresher == "c1"
RefreshIdle == rf[Refresher].pc = "idle"
NextBackoff ==
    \/ /\ rq.pc \in {"idle", "sleep"}
       /\ refresh_token(Refresher) /\ UNCHANGED <<rq, db, up, dirVars>>
    \/ refresh_recv(Refresher) /\ UNCHANGED <<rq, db, up, dirVars>>
    \/ refresh_wake(Refresher) /\ UNCHANGED <<rq, db, up, dirVars>>
    \/ refresh_return(Refresher) /\ UNCHANGED <<rq, db, up, dirVars>>
    \/ RefreshIdle /\ pipe_call /\ UNCHANGED <<db, up, dirVars>>
    \/ RefreshIdle /\ pipe_dispatch /\ UNCHANGED <<db, up, dirVars>>
    \/ RefreshIdle /\ pipe_recv /\ UNCHANGED <<db, up, dirVars>>
    \/ RefreshIdle /\ pipe_wake /\ UNCHANGED <<db, up, dirVars>>
    \/ RefreshIdle /\ pipe_refresh /\ UNCHANGED <<db, up, dirVars>>
    \/ RefreshIdle /\ pipe_recv2 /\ UNCHANGED <<db, up, dirVars>>
    \/ RefreshIdle /\ pipe_return /\ UNCHANGED <<db, up, dirVars>>
SpecBackoff == InitPipe /\ [][NextBackoff]_vars

\* the cache as earlier listings and uploads can have left it
InitRows == {Row(p, n, sz, "pc") : p \in Parents, n \in Names, sz \in Sizes}
InitUpload ==
    /\ token = SeedToken
    /\ now = 0
    /\ rf = [c \in Callers |-> IdleTask]
    /\ rq = RqIdle
    /\ db \in [Ids -> InitRows \cup {NoRow}]
    /\ up = UpIdle
    /\ remote = RemoteEmpty /\ dt = DtInit /\ ensured = NoneEnsured

NextUpload ==
    \/ \E p \in Parents, n \in Names, l \in Sizes :
          upload_file(p, n, l) /\ UNCHANGED <<token, now, rf, rq, dirVars>>
    \/ upload_init1 /\ UNCHANGED <<token, now, rf, rq, dirVars>>
    \/ upload_init2 /\ UNCHANGED <<token, now, rf, rq, dirVars>>
    \/ get_upload_token /\ UNCHANGED <<token, now, rf, rq, dirVars>>
    \/ oss_put_object /\ UNCHANGED <<token, now, rf, rq, dirVars>>
    \/ delete_dup /\ UNCHANGED <<token, now, rf, rq, dirVars>>
    \/ insert_row /\ UNCHANGED <<token, now, rf, rq, dirVars>>
    \/ upload_return /\ UNCHANGED <<token, now, rf, rq, dirVars>>

SpecUpload == InitUpload /\ [][NextUpload]_vars

(***************************************************************************)
(* One upload with the log of its traffic: the upload-init requests        *)
(* (inits) and OSS PUTs (puts) sent so far, and what the upload-init       *)
(* answers carried: the status of the first (st1) and of the second (st2), *)
(* and the sign_check range of the first (sg1).                            *)
(***************************************************************************)
NoLog == [inits |-> 0, puts |-> 0, st1 |-> NoneInt, sg1 |-> NoSign, st2 |-> NoneInt]

\* what an upload-init answer lets the upload read of `data`
init_status(resp) ==
    IF upload_init(resp).err = "" THEN Some(resp.data.status) ELSE NoneInt
init_sign(resp) ==
    IF upload_init(resp).err = "" THEN resp.data.sign ELSE NoSign

\* the upload-init requests sent after a step that left the upload at u
inits_after(log, u) == IF u.pc = "init2" THEN log.inits + 1 ELSE log.inits

LogRows == {NoRow, Row(<<0>>, "a", MaxLen, "pc")}

\* bodies long enough for a challenge to start past its end within them
MaxBody == MaxLen + 1

InitRequests ==
    /\ token = SeedToken
    /\ now = 0
    /\ rf = [c \in Callers |-> IdleTask]
    /\ rq = NoLog
    /\ db \in [Ids -> LogRows]
    /\ up = UpIdle
    /\ remote = RemoteEmpty /\ dt = DtInit /\ ensured = NoneEnsured

NextRequests ==
    \/ \E n \in Names, l \in 0..MaxBody :
          /\ upload_file(<<0>>, n, l)
          /\ rq' = [NoLog EXCEPT !.inits = 1]
          /\ UNCHANGED <<token, now, rf, dirVars>>
    \/ \E resp \in InitResps :
          /\ upload_init1_answer(resp)
          /\ rq' = [rq EXCEPT !.st1 = init_status(resp), !.sg1 = init_sign(resp),
                              !.inits = inits_after(rq, up')]
          /\ UNCHANGED <<token, now, rf, dirVars>>
    \/ \E resp \in InitResps :
          /\ upload_init2_answer(resp)
          /\ rq' = [rq EXCEPT !.st2 = init_status(resp),
                              !.inits = inits_after(rq, up')]
          /\ UNCHANGED <<token, now, rf, dirVars>>
    \/ get_upload_token /\ UNCHANGED <<token, now, rf, rq, dirVars>>
    \/ /\ oss_put_object
       /\ rq' = [rq EXCEPT !.puts = rq.puts + 1]
       /\ UNCHANGED <<token, now, rf, dirVars>>
    \/ delete_dup /\ UNCHANGED <<token, now, rf, rq, dirVars>>
    \/ insert_row /\ UNCHANGED <<token, now, rf, rq, dirVars>>

SpecRequests == InitRequests /\ [][NextRequests]_vars

(***************************************************************************)
(* save_files_to_db statement by statement, beside queries of the cache.   *)
(* The statements run on a transaction (exec(&txn)): txn is the table as   *)
(* the transaction sees it, db the committed table, which is what a query  *)
(* on the connection (all(&self.db)) reads.  A statement that fails        *)
(* returns with `?`, which drops the transaction: nothing of it is         *)
(* committed.                                                              *)
(***************************************************************************)
SaveIdle == [pc |-> "idle", op |-> "", cid |-> NoId, name |-> "", files |-> <<>>,
             i |-> 0, txn |-> DbEmpty, old |-> DbEmpty, ok |-> FALSE, err |-> "",
             seen |-> {}, found |-> NoFileInfo]
SaveErr(q, e) == [q EXCEPT !.pc = "done", !.err = e, !.txn = DbEmpty]

\* delete_many that deletes nothing
delete_many_Nothing(d, parent) == d

\* delete_many().filter(ParentId.eq(parent_id))
delete_many(d, parent) ==
    [id \in DOMAIN d |->
        IF d[id].some /\ d[id].parent_id = parent THEN NoRow ELSE d[id]]

\* insert(am).on_conflict(FileId).update_columns(ParentId, Name, IsDir, Size,
\* PickCode): the row of this file_id is written, new or not
insert_on_conflict(d, parent, f) ==
    [d EXCEPT ![f.file_id] =
        [some |-> TRUE, parent_id |-> parent, name |-> f.filename,
         is_dir |-> f.is_dir, size |-> f.size, pick_code |-> f.pick_code]]

\* a statement that is committed as it runs
exec_txn_Autocommit(d, w) == [db |-> w, txn |-> w]

\* exec(&txn): the statement leaves the table w in the transaction and the
\* committed table d as it is
exec_txn(d, w) == [db |-> d, txn |-> w]

\* lines 296-300: self.db.begin()
save_begin(t, parent, files) ==
    /\ dt[t].pc = "idle"
    /\ \E ok \in BOOLEAN :
         dt' = [dt EXCEPT ![t] =
                  IF ok
                  THEN [SaveIdle EXCEPT !.pc = "delete", !.op = "save",
                                        !.cid = parent, !.files = files,
                                        !.txn = db, !.old = db]
                  ELSE SaveErr([SaveIdle EXCEPT !.op = "save", !.cid = parent,
                                                !.files = files, !.old = db],
                               "Internal: DB begin fail")]
    /\ UNCHANGED db

\* lines 302-307: the rows of the parent are deleted
save_delete(t) ==
    /\ dt[t].pc = "delete"
    /\ \E ok \in BOOLEAN :
         LET q == dt[t]
             e == exec_txn(db, delete_many(q.txn, q.cid))
         IN IF ok
            THEN /\ db' = e.db
                 /\ dt' = [dt EXCEPT ![t] = [q EXCEPT !.pc = "insert", !.i = 1,
                                                      !.txn = e.txn]]
            ELSE /\ dt' = [dt EXCEPT ![t] = SaveErr(q, "Internal: DB delete fail")]
                 /\ UNCHANGED db

\* lines 309-334: one file of the listing is inserted
save_insert(t) ==
    /\ dt[t].pc = "insert"
    /\ dt[t].i <= Len(dt[t].files)
    /\ \E ok \in BOOLEAN :
         LET q == dt[t]
             e == exec_txn(db, insert_on_conflict(q.txn, q.cid, q.files[q.i]))
         IN IF ok
            THEN /\ db' = e.db
                 /\ dt' = [dt EXCEPT ![t] = [q EXCEPT !.i = q.i + 1, !.txn = e.txn]]
            ELSE /\ dt' = [dt EXCEPT ![t] = SaveErr(q, "Internal: DB insert fail")]
                 /\ UNCHANGED db

\* lines 336-339: txn.commit()
save_commit(t) ==
    /\ dt[t].pc = "insert"
    /\ dt[t].i > Len(dt[t].files)
    /\ \E ok \in BOOLEAN :
         LET q == dt[t]
         IN IF ok
            THEN /\ db' = q.txn
                 /\ dt' = [dt EXCEPT ![t] = [q EXCEPT !.pc = "done", !.ok = TRUE,
                                                      !.txn = DbEmpty]]
            ELSE /\ dt' = [dt EXCEPT ![t] = SaveErr(q, "Internal: DB commit fail")]
                 /\ UNCHANGED db

\* list_files(cid) on the connection
read_list(t, cid) ==
    /\ dt[t].pc = "idle"
    /\ dt' = [dt EXCEPT ![t] = [SaveIdle EXCEPT !.pc = "done", !.op = "list",
                                                !.cid = cid, !.ok = TRUE,
                                                !.seen = list_files(db, cid)]]
    /\ UNCHANGED db

\* find_file(cid, name) on the connection
read_find(t, cid, name) ==
    /\ dt[t].pc = "idle"
    /\ dt' = [dt EXCEPT ![t] = [SaveIdle EXCEPT !.pc = "done", !.op = "find",
                                                !.cid = cid, !.name = name,
                                                !.ok = TRUE,
                                                !.found = find_file(db, cid, name)]]
    /\ UNCHANGED db

\* the query returns to its caller
read_return(t) ==
    /\ dt[t].pc = "done"
    /\ dt[t].op \in {"list", "find"}
    /\ dt' = [dt EXCEPT ![t] = SaveIdle]
    /\ UNCHANGED db

\* listings of up to two files, two of which can carry the same file_id
SaveFiles == {FileInfo(id, n, FALSE, MaxLen, "pc") : id \in Ids, n \in Names}
SaveListings ==
    {<<>>} \cup {<<f>> : f \in SaveFiles} \cup {<<f, g>> : f \in SaveFiles, g \in SaveFiles}
SaveRows == {Row(p, n, 0, "") : p \in Parents, n \in Names}
Writer == "t1"
Reader == "t2"

InitSave ==
    /\ token = SeedToken
    /\ now = 0
    /\ rf = [c \in Callers |-> IdleTask]
    /\ rq = RqIdle
    /\ db \in [Ids -> SaveRows \cup {NoRow}]
    /\ up = UpIdle
    /\ remote = RemoteEmpty /\ ensured = NoneEnsured
    /\ dt = [t \in Tasks |-> SaveIdle]

NextSave ==
    \/ \E files \in SaveListings :
          save_begin(Writer, Root, files)
          /\ UNCHANGED <<token, now, rf, rq, up, remote, ensured>>
    \/ save_delete(Writer) /\ UNCHANGED <<token, now, rf, rq, up, remote, ensured>>
    \/ save_insert(Writer) /\ UNCHANGED <<token, now, rf, rq, up, remote, ensured>>
    \/ save_commit(Writer) /\ UNCHANGED <<token, now, rf, rq, up, remote, ensured>>
    \/ read_list(Reader, Root) /\ UNCHANGED <<token, now, rf, rq, up, remote, ensured>>
    \/ \E n \in Names :
          read_find(Reader, Root, n)
          /\ UNCHANGED <<token, now, rf, rq, up, remote, ensured>>
    \/ read_return(Reader) /\ UNCHANGED <<token, now, rf, rq, up, remote, ensured>>

SpecSave == InitSave /\ [][NextSave]_vars

InitDirs ==
    /\ token = SeedToken
    /\ now = 0
    /\ rf = [c \in Callers |-> IdleTask]
    /\ rq = RqIdle
    /\ db = [id \in DirIds |-> NoRow]
    /\ up = UpIdle
    /\ remote = RemoteEmpty /\ dt = DtInit /\ ensured = NoneEnsured

NextDirs ==
    \/ \E t \in Tasks, p \in Paths, f \in BOOLEAN :
          ensure_path(t, p, f) /\ UNCHANGED <<token, now, rf, rq, up>>
    \/ \E t \in Tasks : ensure_walk(t) /\ UNCHANGED <<token, now, rf, rq, up>>
    \/ \E t \in Tasks : remote_list(t) /\ UNCHANGED <<token, now, rf, rq, up>>
    \/ \E t \in Tasks : ensure_listed(t) /\ UNCHANGED <<token, now, rf, rq, up>>
    \/ \E t \in Tasks : remote_mkdir(t) /\ UNCHANGED <<token, now, rf, rq, up>>
    \/ \E t \in Tasks : create_directory(t) /\ UNCHANGED <<token, now, rf, rq, up>>
    \/ \E t \in Tasks : task_return(t) /\ UNCHANGED <<token, now, rf, rq, up>>
    \/ \E p \in {Root} \cup DirIds, n \in DirNames :
          other_mkdir(p, n) /\ UNCHANGED <<token, now, rf, rq, up>>

SpecDirs == InitDirs /\ [][NextDirs]_vars

\* the cache and the provider's tree as earlier requests have left them: each
\* directory of the repository cached or not, each file id a row of a type
\* directory or of a data shard, or no row
RestDirs ==
    (<<7>> :> dir_row(Root, "r")) @@ (<<1, 2>> :> dir_row(<<7>>, "k")) @@
    (<<3>> :> dir_row(<<7>>, "d")) @@ (<<4>> :> dir_row(<<3>>, "a"))
RestFiles == {Row(p, n, MaxLen, "pc") : p \in {<<1, 2>>, <<4>>}, n \in Names}
RestTrees == {s \in SUBSET DOMAIN RestDirs :
                 \A id \in s : RestDirs[id].parent_id \in s \cup {Root}}
RestTasks == {"t1"}
RestHeaders == {NoRange, RangeHdr(TRUE, <<<<>>, <<1>>>>)}
RestCache(present, files) ==
    [id \in DOMAIN RestDirs \cup Ids |->
        IF id \in Ids THEN files[id]
        ELSE IF id \in present THEN RestDirs[id] ELSE NoRow]
RestRemote(present) ==
    [id \in DOMAIN RestDirs |->
        IF id \in present
        THEN RNode(RestDirs[id].parent_id, RestDirs[id].name, TRUE) ELSE RFree]

InitRest ==
    /\ token = SeedToken
    /\ now = 0
    /\ rf = [c \in Callers |-> IdleTask]
    /\ rq = RqIdle
    /\ up = UpIdle
    /\ \E present \in RestTrees, files \in [Ids -> RestFiles \cup {NoRow}] :
          /\ db = RestCache(present, files)
          /\ remote = RestRemote(present)
    /\ dt = DtInit
    /\ ensured = [p \in RestPaths |-> NoId]

NextRest ==
    \/ \E t \in RestTasks, ty \in Types, n \in Names :
          head_file(t, ty, n) /\ UNCHANGED <<token, now, rf, rq, up>>
    \/ \E t \in RestTasks, ty \in Types, n \in Names, h \in RestHeaders :
          get_file(t, ty, n, h) /\ UNCHANGED <<token, now, rf, rq, up>>
    \/ \E t \in RestTasks : download_file(t) /\ UNCHANGED <<token, now, rf, rq, up>>
    \/ \E t \in RestTasks, ty \in ListTypes :
          list_files_of_type(t, ty) /\ UNCHANGED <<token, now, rf, rq, up>>
    \/ \E t \in RestTasks, ty \in Types, n \in Names :
          handle_delete(t, ty, n) /\ UNCHANGED <<token, now, rf, rq, up>>
    \/ \E t \in RestTasks : remote_delete(t) /\ UNCHANGED <<token, now, rf, rq, up>>
    \/ \E t \in RestTasks, n \in Names :
          ensure_path(t, dir_path("k", n), FALSE) /\ UNCHANGED <<token, now, rf, rq, up>>
    \/ \E t \in RestTasks : ensure_walk(t) /\ UNCHANGED <<token, now, rf, rq, up>>
    \/ \E t \in RestTasks : remote_mkdir(t) /\ UNCHANGED <<token, now, rf, rq, up>>
    \/ \E t \in RestTasks : create_directory(t) /\ UNCHANGED <<token, now, rf, rq, up>>
    \/ \E t \in RestTasks : task_return(t) /\ UNCHANGED <<token, now, rf, rq, up>>

SpecRest == InitRest /\ [][NextRest]_vars

\* a GET with a Range header on a cached file of each size
MaxSize == 3
Parts == {<<>>, <<NonDigit>>} \cup {<<n>> : n \in 0..(MaxSize + 1)}
PartSeqs == UNION {[1..l -> Parts] : l \in 1..3}
RangeHeaders == {NoRange} \cup {RangeHdr(pre, ps) : pre \in BOOLEAN, ps \in PartSeqs}

InitRange ==
    /\ token = SeedToken
    /\ now = 0
    /\ rf = [c \in Callers |-> IdleTask]
    /\ rq = RqIdle
    /\ up = UpIdle
    /\ \E sz \in 0..MaxSize :
          db = RestCache(DOMAIN RestDirs,
                         [id \in Ids |-> IF id = <<9>> THEN Row(<<1, 2>>, "a", sz, "pc")
                                         ELSE NoRow])
    /\ remote = RestRemote(DOMAIN RestDirs)
    /\ dt = DtInit
    /\ ensured = [p \in RestPaths |-> NoId]

NextRange ==
    \/ \E t \in RestTasks, h \in RangeHeaders :
          get_file(t, "k", "a", h) /\ UNCHANGED <<token, now, rf, rq, up>>
    \/ \E t \in RestTasks : download_file(t) /\ UNCHANGED <<token, now, rf, rq, up>>
    \/ \E t \in RestTasks : task_return(t) /\ UNCHANGED <<token, now, rf, rq, up>>

SpecRange == InitRange /\ [][NextRange]_vars

\* lookups on a cache that listings and uploads have filled
InitFind ==
    /\ token = SeedToken
    /\ now = 0
    /\ rf = [c \in Callers |-> IdleTask]
    /\ rq = RqIdle
    /\ db \in [Ids -> InitRows \cup {NoRow}]
    /\ up = UpIdle
    /\ remote = RemoteEmpty /\ dt = DtInit /\ ensured = NoneEnsured

NextFind ==
    \/ \E t \in RestTasks, cid \in Parents, name \in Names :
          get_file_info(t, cid, name) /\ UNCHANGED <<token, now, rf, rq, up>>
    \/ \E t \in RestTasks : task_return(t) /\ UNCHANGED <<token, now, rf, rq, up>>

SpecFind == InitFind /\ [][NextFind]_vars

\* two uploads at a time under the remote root
InitRace ==
    /\ token = SeedToken
    /\ now = 0
    /\ rf = [c \in Callers |-> IdleTask]
    /\ rq = RqIdle
    /\ db \in [Ids -> {Row(Root, n, MaxLen, "pc") : n \in Names} \cup {NoRow}]
    /\ up = UpIdle
    /\ remote = RemoteEmpty /\ dt = DtInit /\ ensured = NoneEnsured

NextRace ==
    \/ \E t \in Tasks, n \in Names :
          upload_begin(t, Root, n, MaxLen) /\ UNCHANGED <<token, now, rf, rq, up>>
    \/ \E t \in Tasks : handle_upload_success(t) /\ UNCHANGED <<token, now, rf, rq, up>>
    \/ \E t \in Tasks : dup_delete(t) /\ UNCHANGED <<token, now, rf, rq, up>>
    \/ \E t \in Tasks : dup_insert(t) /\ UNCHANGED <<token, now, rf, rq, up>>
    \/ \E t \in Tasks : task_return(t) /\ UNCHANGED <<token, now, rf, rq, up>>

SpecRace == InitRace /\ [][NextRace]_vars

\* warm_cache at startup, over the cache an earlier run has left and a remote
\* tree that another writer changes
InitWarm ==
    /\ token = SeedToken
    /\ now = 0
    /\ rf = [c \in Callers |-> IdleTask]
    /\ rq = RqIdle
    /\ up = UpIdle
    /\ \E present \in RestTrees :
       \E files \in [Ids -> {f \in RestFiles : f.parent_id \in present} \cup {NoRow}] :
          /\ db = RestCache(present, files)
          /\ remote = RestRemote(present)
    /\ dt = DtInit
    /\ ensured = NoneEnsured

NextWarm ==
    \/ \E t \in RestTasks :
          ensure_path(t, RepoPath, TRUE) /\ UNCHANGED <<token, now, rf, rq, up>>
    \/ \E t \in RestTasks : ensure_walk(t) /\ UNCHANGED <<token, now, rf, rq, up>>
    \/ \E t \in RestTasks : remote_list(t) /\ UNCHANGED <<token, now, rf, rq, up>>
    \/ \E t \in RestTasks : ensure_listed(t) /\ UNCHANGED <<token, now, rf, rq, up>>
    \/ \E t \in RestTasks : remote_mkdir(t) /\ UNCHANGED <<token, now, rf, rq, up>>
    \/ \E t \in RestTasks : create_directory(t) /\ UNCHANGED <<token, now, rf, rq, up>>
    \/ \E t \in RestTasks, f \in BOOLEAN :
          warm_cache(t, f) /\ UNCHANGED <<token, now, rf, rq, up>>
    \/ \E t \in RestTasks : fetch_or_use_cache(t) /\ UNCHANGED <<token, now, rf, rq, up>>
    \/ \E t \in RestTasks : warm_listed(t) /\ UNCHANGED <<token, now, rf, rq, up>>
    \/ \E t \in RestTasks : task_return(t) /\ UNCHANGED <<token, now, rf, rq, up>>
    \/ \E id \in DOMAIN RestDirs : other_remove(id) /\ UNCHANGED <<token, now, rf, rq, up>>

SpecWarm == InitWarm /\ [][NextWarm]_vars

\* handlers that fail with each error
InitError ==
    /\ token = SeedToken
    /\ now = 0
    /\ rf = [c \in Callers |-> IdleTask]
    /\ rq = RqIdle
    /\ db = DbEmpty
    /\ up = UpIdle
    /\ remote = RemoteEmpty /\ dt = DtInit /\ ensured = NoneEnsured

NextError ==
    \/ \E t \in Tasks, e \in AppErrors :
          handler_err(t, e) /\ UNCHANGED <<token, now, rf, rq, up>>
    \/ \E t \in Tasks : task_return(t) /\ UNCHANGED <<token, now, rf, rq, up>>

SpecError == InitError /\ [][NextError]_vars

(***************************************************************************)
(* is_api_error on the envelopes a provider can answer.  The `code` field  *)
(* is kept as the JSON it arrives as: Value::as_i64 gives the integer of a *)
(* number and nothing for an absent field or a string.                     *)
(***************************************************************************)
as_i64(j) == IF j.kind = "num" THEN Some(j.n) ELSE NoneInt

JsonCodes == {JAbsent, JNum(0), JNum(-1), JNum(401), JStr(<<"0">>), JStr(<<"4","0","1">>)}
JsonStates ==
    {JAbsent, JBool(TRUE), JBool(FALSE), JNum(0), JNum(1), JNum(2), JNum(-1),
     JStr(<<>>), JStr(<<"0">>), JStr(<<"1">>), JStr(<<"0","0">>),
     JStr(<<"f","a","l","s","e">>), JStr(<<"F","a","l","s","e">>),
     JStr(<<"F","A","L","S","E">>), JStr(<<"f","A","l","S","e">>),
     JStr(<<"f","a","l","s">>), JStr(<<"f","a","l","s","e","s">>),
     JStr(<<"t","r","u","e">>), JStr(<<"T","R","U","E">>), JStr(<<"T","r","u","e">>)}

\* a response body read as serde_json::Value, before is_api_error looks at it
ApiValue(code, state) ==
    [pc |-> "value", code |-> code, state |-> state, error |-> FALSE]

\* is_api_error(&v): v.get("code").and_then(|c| c.as_i64()), v.get("state")
api_check ==
    /\ rq.pc = "value"
    /\ rq' = [rq EXCEPT !.pc = "checked",
                        !.error = is_api_error([code |-> as_i64(rq.code),
                                                state |-> rq.state])]

\* the next body arrives
api_next ==
    /\ rq.pc = "checked"
    /\ \E code \in JsonCodes, state \in JsonStates : rq' = ApiValue(code, state)

InitApi ==
    /\ token = SeedToken
    /\ now = 0
    /\ rf = [c \in Callers |-> IdleTask]
    /\ \E code \in JsonCodes, state \in JsonStates : rq = ApiValue(code, state)
    /\ db = DbEmpty
    /\ up = UpIdle
    /\ remote = RemoteEmpty /\ dt = DtInit /\ ensured = NoneEnsured

NextApi ==
    \/ api_check /\ UNCHANGED <<token, now, rf, db, up, dirVars>>
    \/ api_next /\ UNCHANGED <<token, now, rf, db, up, dirVars>>

SpecApi == InitApi /\ [][NextApi]_vars

\* one POST request on a repository of which some directories and files
\* exist
PostNames == {"a", "abc"}
InitPost ==
    /\ token = SeedToken
    /\ now = 0
    /\ rf = [c \in Callers |-> IdleTask]
    /\ rq = RqIdle
    /\ up = UpIdle
    /\ \E present \in RestTrees :
       \E files \in [Ids -> {f \in RestFiles : f.parent_id \in present} \cup {NoRow}] :
          /\ db = RestCache(present, files)
          /\ remote = RestRemote(present)
    /\ dt = DtInit
    /\ ensured = NoneEnsured

NextPost ==
    \/ \E t \in RestTasks, ty \in Types, n \in PostNames :
          post_file(t, ty, n) /\ UNCHANGED <<token, now, rf, rq>>
    \/ \E t \in RestTasks : ensure_walk(t) /\ UNCHANGED <<token, now, rf, rq, up>>
    \/ \E t \in RestTasks : remote_mkdir(t) /\ UNCHANGED <<token, now, rf, rq, up>>
    \/ \E t \in RestTasks : create_directory(t) /\ UNCHANGED <<token, now, rf, rq, up>>
    \/ \E t \in RestTasks : post_failed(t) /\ UNCHANGED <<token, now, rf, rq>>
    \/ \E t \in RestTasks : post_upload(t, MaxLen) /\ UNCHANGED <<token, now, rf, rq>>
    \/ upload_init1 /\ UNCHANGED <<token, now, rf, rq, dirVars>>
    \/ upload_init2 /\ UNCHANGED <<token, now, rf, rq, dirVars>>
    \/ get_upload_token /\ UNCHANGED <<token, now, rf, rq, dirVars>>
    \/ oss_put_object /\ UNCHANGED <<token, now, rf, rq, dirVars>>
    \/ delete_dup /\ UNCHANGED <<token, now, rf, rq, dirVars>>
    \/ insert_row /\ UNCHANGED <<token, now, rf, rq, dirVars>>
    \/ \E t \in RestTasks : post_return(t) /\ UNCHANGED <<token, now, rf, rq>>

SpecPost == InitPost /\ [][NextPost]_vars

(***************************************************************************)
(* Claims about the TokenManager, checked under SpecToken.                 *)
(***************************************************************************)
InFlight == {c \in Callers : rf[c].pc = "inflight"}

\* C6: for one TokenManager at most one request to the refresh endpoint is
\* in flight at any time (a caller that arrives during a refresh sends no
\* request of its own).
C6_AtMostOneRefreshInFlight == Cardinality(InFlight) <= 1

\* C7: a stored pair is never cleared; the stored access and refresh tokens
\* are the seed pair or the two tokens of one successful refresh response
\* (same number); the stored token changes only in the step in which a task
\* receives a complete successful response and takes its pair; a task whose
\* attempt is retried or fails leaves the stored token as it was.
C7_StoredPairIntact ==
    /\ [](token.some => token.access_token = token.refresh_token)
    /\ [][/\ token.some => token'.some
          /\ token' # token =>
                \E c \in Callers :
                    /\ rf[c].pc = "inflight"
                    /\ rf'[c].pc = "done" /\ rf'[c].ok
                    /\ token'.access_token = rf'[c].val
                    /\ token'.refresh_token = rf'[c].val
          /\ \A c \in Callers :
                (/\ rf[c].pc = "inflight" /\ rf'[c] # rf[c]
                 /\ ~(rf'[c].pc = "done" /\ rf'[c].ok))
                    => token' = token]_vars

\* C7 witness: a refresh response has replaced the seed pair, and another
\* refresh has failed on a successful envelope that lacks the refresh token.
C7_Witness ==
    /\ token.some /\ token.access_token # 0
    /\ \E c \in Callers :
          rf[c].pc = "done" /\ ~rf[c].ok /\ rf[c].err = "Auth: missing refresh_token"

\* the step in which task c receives the answer to its POST
RefreshAnswerStep(c) == rf[c].pc = "inflight" /\ rf'[c].pc # "inflight"
AnswerSaysSuccess(h) ==
    h.kind = "body" /\ deserialize_state(h.state) = Some(TRUE) /\ h.code = Some(0)

\* C11: one refresh_token call sends at most six POSTs (the attempt counts
\* them); it sleeps and re-sends only after a transport error, a JSON parse
\* error or application code 40140117; any other application answer that is
\* not a success ends the call in that step, with no further POST, with the
\* authentication error that quotes the answer's code (-1 for none).
C11_RefreshRetriesAtMostSix ==
    /\ [](\A c \in Callers : rf[c].attempt <= MAX_RATE_LIMIT_RETRIES)
    /\ [][\A c \in Callers :
            /\ (RefreshAnswerStep(c) /\ rf'[c].pc = "sleep") =>
                  /\ \/ rf'[c].last.kind \in {"transport", "garbage"}
                     \/ rf'[c].last.code = Some(CodeRefreshTooFrequent)
                  /\ rf'[c].attempt = rf[c].attempt
            /\ (rf[c].pc = "sleep" /\ rf'[c].pc # "sleep") =>
                  rf'[c].pc = "inflight" /\ rf'[c].attempt = rf[c].attempt + 1
            /\ (rf[c].pc # "sleep" /\ rf'[c].pc = "inflight" /\ rf[c].pc # "inflight") =>
                  rf'[c].attempt = 1
            /\ (/\ RefreshAnswerStep(c)
                /\ rf'[c].last.kind = "body"
                /\ ~AnswerSaysSuccess(rf'[c].last)
                /\ rf'[c].last.code # Some(CodeRefreshTooFrequent)) =>
                  /\ rf'[c].pc = "done" /\ ~rf'[c].ok
                  /\ rf'[c].err = "Auth: Failed to refresh token"
                  /\ rf'[c].ecode = unwrap_or(rf'[c].last.code, -1)]_vars

\* C11 witness: one task has sent its sixth POST while another's call was
\* ended by an answer that says state true and code 5.
C11_Witness ==
    \E c, o \in Callers :
        /\ rf[c].pc = "inflight" /\ rf[c].attempt = MAX_RATE_LIMIT_RETRIES
        /\ rf[o].pc = "done" /\ rf[o].err = "Auth: Failed to refresh token"
        /\ rf[o].ecode = 5 /\ rf[o].last.state = JBool(TRUE)

\* C12: get_token returns the stored access token, sending nothing, exactly
\* when a token is stored and either it has no expires_at or now + 5 minutes
\* < expires_at; otherwise it goes on to a refresh, whose new access token it
\* returns, and which fails with an authentication error when no refresh
\* token is stored.
C12_GetTokenFreshOrRefresh ==
    [][\A c \in Callers :
        /\ (rf[c].pc = "idle" /\ (rf'[c].pc = "enter" \/ (rf'[c].pc = "done" /\ rf'[c].ok))) =>
              /\ rf'[c].pc = "done" <=>
                    (token.some /\ (~token.has_exp
                                    \/ now + ExpiryWindowSecs < token.expires_at))
              /\ rf'[c].pc = "done" =>
                    rf'[c].val = token.access_token /\ rf'[c].attempt = 0
              /\ token' = token
        /\ (rf[c].pc = "enter" /\ rf'[c].pc # "enter") =>
              IF token.some
              THEN rf'[c].pc = "inflight" /\ rf'[c].attempt = 1
              ELSE /\ rf'[c].pc = "done" /\ ~rf'[c].ok
                   /\ rf'[c].err = "Auth: Missing refresh token"
        /\ (RefreshAnswerStep(c) /\ rf'[c].pc = "done" /\ rf'[c].ok) =>
              rf'[c].val = token'.access_token]_vars

\* C12 witness: the stored token is exactly at the edge of the 5-minute
\* window (now + 5 minutes = expires_at) and a get_token has gone on to a
\* refresh.
C12_Witness ==
    /\ token.some /\ token.has_exp /\ now + ExpiryWindowSecs = token.expires_at
    /\ \E c \in Callers : rf[c].pc = "enter"

(***************************************************************************)
(* Claims about request_with_retry, checked under SpecPipe.                *)
(***************************************************************************)
\* the step in which the call receives the first answer of an attempt, and
\* the steps that follow a forced refresh
FirstAnswerStep == rq.pc = "wait" /\ rq'.pc # "wait" /\ rq'.last.kind # "transport"
ForcedRefreshStep == rq.pc = "refresh" /\ rq'.pc # "refresh"
SecondAnswerStep == rq.pc = "wait2" /\ rq'.pc # "wait2"

HasCodeIn(r, codes) == r.kind = "json" /\ r.code.some /\ r.code.v \in codes
TokenInvalidCodes == CodeTokenInvalidLo..CodeTokenInvalidHi
RateLimitCodes == {CodeQuota, CodeRefreshTooFrequent}
RefreshErrors ==
    {"HttpClient", "Auth: Missing refresh token", "Auth: Failed to refresh token",
     "Auth: No data in refresh token response", "Auth: missing access_token",
     "Auth: missing refresh_token"}

\* the call has ended with what answer r decodes to: the value, or a decode
\* error, or the transport error of a dispatch that got no answer
Surfaced(q, r) ==
    /\ q.pc = "done"
    /\ r.kind = "transport" => ~q.ok /\ q.err = "HttpClient"
    /\ r.kind = "json" /\ r.fits => q.ok /\ q.ret = r
    /\ r.kind = "garbage" \/ (r.kind = "json" /\ ~r.fits) => ~q.ok /\ q.err = "Json"

\* what C8 says of the steps after an answer that invalidates the token: no dispatch and
\* no refresh in the step itself, then one forced refresh whose failure ends
\* the call with the refresh's error and whose success sends one more request
\* with the token just stored, then the second answer surfaced as the result
ForcedRefreshThenOneRedispatch(invalid) ==
    /\ FirstAnswerStep /\ invalid =>
          /\ rq'.pc = "refresh"
          /\ rq'.forced = 0 /\ rq'.dispatches = rq.dispatches
    /\ ForcedRefreshStep =>
          \/ /\ rq'.pc = "wait2"
             /\ rq'.forced = 1 /\ rq'.dispatches = rq.dispatches + 1
             /\ rq'.sent = token'.access_token
          \/ /\ rq'.pc = "done" /\ ~rq'.ok /\ rq'.err \in RefreshErrors
             /\ rq'.dispatches = rq.dispatches /\ token' = token
    /\ SecondAnswerStep =>
          /\ Surfaced(rq', rq'.last)
          /\ rq'.forced = 1 /\ rq'.dispatches = rq.dispatches
          /\ token' = token

\* C8 (as stated): an answer with HTTP 401, or with a body code in
\* 40140123..40140126, causes exactly one forced refresh followed by exactly
\* one re-dispatch with the new token, whose result is surfaced with no
\* further refresh or retry; a failed refresh surfaces as the call's error.
C8_AsStated ==
    /\ [](rq.forced <= 1)
    /\ [][ForcedRefreshThenOneRedispatch(
            rq'.last.status = 401 \/ HasCodeIn(rq'.last, TokenInvalidCodes))]_vars

\* C8 (amended): the same for an answer with HTTP 401, or with a body code in
\* 40140123..40140126 unless it came with HTTP 429 before the 6th attempt
\* (that answer is backed off as rate-limited).
C8_ForcedRefreshOnce ==
    /\ [](rq.forced <= 1)
    /\ [][ForcedRefreshThenOneRedispatch(
            \/ rq'.last.status = 401
            \/ /\ HasCodeIn(rq'.last, TokenInvalidCodes)
               /\ ~(rq'.last.status = 429
                    /\ rq.attempt < MAX_RATE_LIMIT_RETRIES))]_vars

\* C8 witness: after two backed-off attempts a forced refresh stored a new
\* pair, the re-dispatch carried it, and the second answer, itself an HTTP
\* 401, was returned as the value.
C8_Witness ==
    /\ rq.pc = "done" /\ rq.ok /\ rq.forced = 1
    /\ rq.attempt = 3 /\ rq.dispatches = 4
    /\ rq.sent # 0 /\ rq.sent = token.access_token
    /\ rq.ret.status = 401

\* what C9 says of rate-limited answers, one dispatch per attempt: a
\* rate-limited answer before the last attempt puts
\* the call to sleep and the next attempt follows; the first answer that is
\* not rate-limited, at attempt k, ends the call with that answer after k
\* dispatches
BackoffThenReturn(limited, final) ==
    /\ FirstAnswerStep /\ rq.attempt < MAX_RATE_LIMIT_RETRIES /\ limited =>
          /\ rq'.pc = "sleep" /\ rq'.secs >= 1
          /\ rq'.attempt = rq.attempt /\ rq'.dispatches = rq.attempt
    /\ rq.pc = "sleep" /\ rq'.pc # "sleep" =>
          rq'.pc = "loop" /\ rq'.attempt = rq.attempt + 1
    /\ FirstAnswerStep /\ final =>
          /\ Surfaced(rq', rq'.last)
          /\ rq'.dispatches = rq.attempt /\ rq'.attempt = rq.attempt

\* C9 (as stated): an answer with HTTP 429, or with body code 406 or
\* 40140117, is retried after a backoff sleep, with at most 6 attempts per
\* call; when the k-th attempt is the first answer that is not rate-limited,
\* the call returns that answer after exactly k dispatches.
C9_AsStated ==
    /\ [](rq.attempt <= MAX_RATE_LIMIT_RETRIES)
    /\ [][BackoffThenReturn(
            rq'.last.status = 429 \/ HasCodeIn(rq'.last, RateLimitCodes),
            ~(rq'.last.status = 429 \/ HasCodeIn(rq'.last, RateLimitCodes)))]_vars

\* C9 (amended): an answer with HTTP 429, or with an HTTP status other than
\* 401 and body code 406 or 40140117, is retried after a backoff sleep, with
\* at most 6 attempts per call; when the k-th attempt is the first answer
\* that is not rate-limited, and that answer is neither an HTTP 401 nor
\* carries a body code in 40140123..40140126, the call returns it after
\* exactly k dispatches.
C9_BackoffAtMostSix ==
    /\ [](rq.attempt <= MAX_RATE_LIMIT_RETRIES)
    /\ [][BackoffThenReturn(
            \/ rq'.last.status = 429
            \/ rq'.last.status # 401 /\ HasCodeIn(rq'.last, RateLimitCodes),
            /\ ~(rq'.last.status = 429 \/ HasCodeIn(rq'.last, RateLimitCodes))
            /\ ~(rq'.last.status = 401
                 \/ HasCodeIn(rq'.last, TokenInvalidCodes)))]_vars

\* C9 witness: the third attempt got the first answer that was not
\* rate-limited, after two sleeps, and the call returned it after three
\* dispatches.
C9_Witness ==
    /\ rq.pc = "done" /\ rq.ok /\ rq.forced = 0
    /\ rq.attempt = 3 /\ rq.dispatches = 3
    /\ rq.ret.status = 200 /\ rq.ret.code = Some(0)

\* a body that reports an error (non-zero code, or a state that is false, 0,
\* "0" or "false") that is neither token-invalid nor rate-limited
FalsyState(j) ==
    \/ j.kind = "bool" /\ ~j.b
    \/ j.kind = "num" /\ j.n = 0
    \/ j.kind = "str" /\ (j.s = <<"0">> \/ eq_ignore_ascii_case(j.s, <<"f","a","l","s","e">>))
OtherErrorBody(r) ==
    /\ r.kind = "json"
    /\ (r.code.some /\ r.code.v # 0) \/ FalsyState(r.state)
    /\ ~HasCodeIn(r, TokenInvalidCodes)
    /\ ~HasCodeIn(r, RateLimitCodes)

\* C10 (as stated): a parseable body with non-zero code or falsy state that
\* is neither token-invalid nor rate-limited is returned as the parsed value
\* (Ok, not Err) after exactly one dispatch of the attempt that received it,
\* with no retry and no token refresh.
C10_AsStated ==
    [][FirstAnswerStep /\ OtherErrorBody(rq'.last) =>
          /\ rq'.pc = "done" /\ rq'.ok /\ rq'.ret = rq'.last
          /\ rq'.dispatches = rq.attempt /\ rq'.attempt = rq.attempt
          /\ rq'.forced = 0 /\ token' = token]_vars

\* C10 (amended): such a body, received with an HTTP status other than 401
\* and other than a 429 before the 6th attempt, ends the call after exactly
\* one dispatch of the attempt that received it, with no retry and no token
\* refresh: with the parsed value (Ok) when the body deserialises into the
\* caller's response type, with a JSON decode error when it does not.
C10_OtherErrorReturned ==
    [][(/\ FirstAnswerStep /\ OtherErrorBody(rq'.last)
        /\ rq'.last.status # 401
        /\ ~(rq'.last.status = 429 /\ rq.attempt < MAX_RATE_LIMIT_RETRIES)) =>
          /\ Surfaced(rq', rq'.last)
          /\ rq'.dispatches = rq.attempt /\ rq'.attempt = rq.attempt
          /\ rq'.forced = 0 /\ token' = token]_vars

\* C10 witness: the first answer, an HTTP 500 whose body says state false
\* and code 5, was returned as the value after one dispatch and no refresh.
C10_Witness ==
    /\ rq.pc = "done" /\ rq.ok /\ rq.forced = 0
    /\ rq.attempt = 1 /\ rq.dispatches = 1
    /\ rq.ret.status = 500 /\ rq.ret.state = JBool(FALSE) /\ rq.ret.code = Some(5)


(***************************************************************************)
(* Claims about upload_file, checked under SpecUpload.                     *)
(***************************************************************************)
\* C1: when upload_file(parent_id, name, bytes) has returned Ok, on whatever
\* branch, find_file(parent_id, name) returns a row and the row's size is
\* len(bytes).
C1_UploadedRowHasSize ==
    up.pc = "done" /\ up.ok =>
        LET f == find_file(db, up.parent, up.name)
        IN f.some /\ f.size = up.len

\* C2: when upload_file has returned Ok after reconciling file_id F,
\* find_file(parent_id, name) returns the row whose file_id is F, whatever
\* same-name rows the cache held before and whether or not their remote
\* deletion succeeded.
C2_FindFileReturnsFreshRow ==
    up.pc = "done" /\ up.ok /\ up.info.some =>
        find_file(db, up.parent, up.name).file_id = up.info.file_id

\* C3: no step of upload_file(parent_id, name, bytes) inserts, removes or
\* changes a row under parent_id whose name is not name, so the names that
\* list_files(parent_id) shows change by at most name.
C3_SiblingsUntouched ==
    [][up.pc # "idle" =>
          \A id \in Ids :
              /\ (db[id].some /\ db[id].parent_id = up.parent
                  /\ db[id].name # up.name) => db'[id] = db[id]
              /\ (db'[id].some /\ db'[id].parent_id = up.parent
                  /\ db'[id].name # up.name) => db'[id] = db[id]]_vars

\* C4: when reconciliation writes a file_id that already has a row in the
\* cache, the row is replaced: the upload returns Ok and the row of that
\* file_id carries the new metadata.
C4_RetryUpserts ==
    [][(up.pc = "insert" /\ up'.pc = "done" /\ db[up.info.file_id].some) =>
          /\ up'.ok
          /\ db'[up.info.file_id] =
                Row(up.parent, up.info.filename, up.info.size,
                    up.info.pick_code)]_vars

\* the body of a successful OSS PUT that is empty, is not the callback
\* envelope, or is an envelope that does not satisfy state==true AND code==0
\* AND file_id # "" AND pick_code # "" (read on the decoded envelope, where
\* an absent state is false, an absent code is 0 and an absent data object
\* leaves file_id and pick_code empty)
CallbackInvalid(b) ==
    \/ b.kind \in {"empty", "garbage"}
    \/ /\ b.kind = "envelope"
       /\ ~(/\ deserialize_state(b.state) = Some(TRUE)
            /\ b.code \in {NoneInt, Some(0)}
            /\ b.file_id # NoId
            /\ b.pick_code # "")

\* C5: if the OSS PUT returns HTTP success with such a body, upload_file
\* returns Internal("OSS upload completed but server failed to return file
\* metadata via callback"), and the upload has inserted and removed no cache
\* row.
C5_CallbackMissingFailsUpload ==
    [][(up.pc = "put" /\ up'.pc # "put" /\ CallbackInvalid(up'.cb)) =>
          /\ up'.pc = "done" /\ ~up'.ok /\ up'.err = CallbackMissing
          /\ db' = db /\ ~up'.changed]_vars

\* C5 witness: over a cache that holds rows, an upload ended with that error
\* on an envelope that says state true and code 0 and carries a file_id but
\* an empty pick_code.
C5_Witness ==
    /\ up.pc = "done" /\ ~up.ok /\ up.err = CallbackMissing
    /\ up.cb.kind = "envelope" /\ up.cb.state = JBool(TRUE) /\ up.cb.code = Some(0)
    /\ up.cb.file_id # NoId /\ up.cb.pick_code = ""
    /\ \E id \in Ids : db[id].some

(***************************************************************************)
(* Claims about the path resolver, checked under SpecDirs.                 *)
(***************************************************************************)
\* the step of create_directory that handles the provider's answer
MkdirAnswerStep(t) == dt[t].pc = "made" /\ dt'[t].pc # "made"

\* C13: when the create-directory request is refused because the parent
\* already has a directory of this name (made by another writer or by a
\* concurrent ensure_path), ensure_path does not fail: it goes on with the id
\* of the directory that exists.
C13_CollisionAbsorbed ==
    [][\A t \in Tasks :
          (MkdirAnswerStep(t) /\ dt[t].ans.kind = "exists") =>
              /\ dt'[t].pc = "walk"
              /\ dt'[t].cur \in remote_named(remote, dt[t].cur, dt[t].path[dt[t].i])]_vars

ReadOps == {"head", "get", "list", "delete"}
\* the directory a request is about
RequestDir(q) ==
    IF q.op = "list" /\ q.type = "d" THEN RepoPath \o <<"d">>
    ELSE dir_path(q.type, q.name)
\* the step that takes a request of a type that has a directory: an unknown
\* type, and the config type on a list, are refused before any lookup
RequestStep(t) ==
    dt[t].pc = "idle" /\ dt'[t].op \in ReadOps /\ dt'[t].type \notin {"x", "c"}

\* C15: HEAD, GET, DELETE and list resolve their directory through
\* find_path_id alone: such a request never sends a create-directory request
\* and never changes the provider's tree, and when the cache does not resolve
\* the directory, HEAD and GET answer 404, list answers 200 with an empty
\* list and DELETE answers 200, the cache being left as it is.
C15_ReadsNeverCreate ==
    /\ [](\A t \in Tasks :
            dt[t].op \in ReadOps =>
                dt[t].creates = 0 /\ dt[t].pc \in {"done", "download", "delete"})
    /\ [][\A t \in Tasks :
            /\ (dt'[t].op \in ReadOps /\ dt'[t] # dt[t]) => remote' = remote
            /\ (RequestStep(t) /\ find_path_id(db, RequestDir(dt'[t])) = NoId) =>
                  /\ dt'[t].pc = "done" /\ dt'[t].deletes = 0 /\ db' = db
                  /\ dt'[t].status = IF dt'[t].op \in {"head", "get"} THEN 404 ELSE 200
                  /\ dt'[t].listed = {}]_vars

\* a HEAD has answered 404 for a file whose directory is not cached, while
\* the directory of another type is cached
C15_Witness ==
    \E t \in Tasks :
        /\ dt[t].pc = "done" /\ dt[t].op = "head" /\ dt[t].status = 404
        /\ find_path_id(db, RequestDir(dt[t])) = NoId
        /\ find_path_id(db, TypePath) # NoId

\* the DELETE that follows an answered DELETE of the same type and name
SecondDelete(t) ==
    /\ dt[t].pc = "idle" /\ dt'[t].op = "delete" /\ dt'[t].type # "x"
    /\ dt[t].prev.status = 200
    /\ dt[t].prev.type = dt'[t].type /\ dt[t].prev.name = dt'[t].name
\* the step of delete_file that takes the provider's answer
DeleteAnswerStep(t) == dt[t].pc = "delete" /\ dt'[t].pc = "done"

C20_SuffixRangeServed ==
    [][\A t \in Tasks :
          /\ (/\ dt[t].pc = "idle" /\ dt'[t].op = "get" /\ dt'[t].len > 0
              /\ dt'[t].hdr.some /\ dt'[t].hdr.prefix /\ Len(dt'[t].hdr.parts) = 2
              /\ dt'[t].hdr.parts[1] = <<>> /\ parse_u64(dt'[t].hdr.parts[2]).some) =>
                /\ dt'[t].pc = "download"
                /\ dt'[t].range =
                      RangeOk(dt'[t].len - Min(parse_u64(dt'[t].hdr.parts[2]).v, dt'[t].len),
                              dt'[t].len - 1)
          /\ (dt[t].pc = "download" /\ dt[t].range.kind = "Ok" /\ dt'[t].pc = "done"
              /\ dt'[t].ok) => dt'[t].status = 206]_vars


(***************************************************************************)
(* Claims about find_file, checked under SpecFind and SpecRace.            *)
(***************************************************************************)
\* the lexicographic order on ids, digit by digit from the front
RECURSIVE LexLess(_, _)
LexLess(x, y) ==
    IF y = <<>> THEN FALSE
    ELSE IF x = <<>> THEN TRUE
    ELSE IF Head(x) # Head(y) THEN Head(x) < Head(y)
    ELSE LexLess(Tail(x), Tail(y))

SameName(cid, name) ==
    {id \in DOMAIN db : db[id].some /\ db[id].parent_id = cid /\ db[id].name = name}

\* C16: find_file(dir_id, name) returns None exactly when no cached row has
\* that (parent_id, name); otherwise it returns the row whose file_id is
\* lexicographically greatest among the cached rows with that
\* (parent_id, name).
C16_FindFileGreatest ==
    \A t \in Tasks :
        (dt[t].pc = "done" /\ dt[t].op = "find") =>
            LET rows == SameName(dt[t].cur, dt[t].name)
            IN /\ ~dt[t].ok <=> rows = {}
               /\ rows # {} =>
                     /\ dt[t].val \in rows
                     /\ \A o \in rows \ {dt[t].val} : LexLess(o, dt[t].val)
                     /\ dt[t].len = db[dt[t].val].size

\* C16 witness: with the rows "9" and "10" under one parent and name, the
\* lookup has returned "9"; and a lookup of a name without a row has
\* returned None
C16_Witness ==
    \E t \in Tasks :
        /\ dt[t].pc = "done" /\ dt[t].op = "find" /\ dt[t].ok
        /\ SameName(dt[t].cur, dt[t].name) = {<<9>>, <<1, 0>>}
        /\ dt[t].val = <<9>>
        /\ \E n \in Names : SameName(dt[t].cur, n) = {}

\* C17: for two concurrent upload_file calls of the same (parent_id, name)
\* that both return Ok, find_file(parent_id, name) afterwards returns, under
\* every interleaving, the same row: that of the lexicographically greatest
\* of the two uploaded file_ids.
C17_ConcurrentUploadsDeterministic ==
    \A t, u \in Tasks :
        (/\ t # u
         /\ dt[t].op = "upload" /\ dt[u].op = "upload"
         /\ dt[t].pc = "done" /\ dt[u].pc = "done"
         /\ dt[t].ok /\ dt[u].ok
         /\ dt[t].overlap /\ dt[u].overlap
         /\ dt[t].cur = dt[u].cur /\ dt[t].name = dt[u].name
         /\ LexLess(dt[u].val, dt[t].val))
        => find_file(db, dt[t].cur, dt[t].name).file_id = dt[t].val


(***************************************************************************)
(* Claims about warm_cache, checked under SpecWarm.                        *)
(***************************************************************************)
Dangling(d) ==
    {id \in DOMAIN d : /\ d[id].some
                       /\ d[id].parent_id # Root
                       /\ ~\E o \in DOMAIN d \ {id} : d[o].some /\ o = d[id].parent_id}

\* C18: after every successful warm_cache, each cached row's parent_id is
\* either "0" or the file_id of some other cached row (no dangling parents),
\* whatever rows the cache held before and whatever the remote tree looks
\* like.
C18_NoDanglingParents ==
    \A t \in Tasks :
        (dt[t].pc = "done" /\ dt[t].op = "warm_cache" /\ dt[t].ok)
            => Dangling(db) = {}


(***************************************************************************)
(* Claims about byte ranges, checked under SpecRange.                      *)
(***************************************************************************)
\* the step by which GET takes a request whose Range header is "bytes="
\* followed by two parts
RangeRequestStep(t) ==
    /\ dt[t].pc = "idle" /\ dt'[t].op = "get"
    /\ dt'[t].hdr.some /\ dt'[t].hdr.prefix /\ Len(dt'[t].hdr.parts) = 2
\* the cached file the request names, and the number a part spells, if it
\* spells one
RangeFile(t) ==
    find_file(db, find_path_id(db, RequestDir(dt'[t])), dt'[t].name)
PartNum(t, k) == parse_u64(dt'[t].hdr.parts[k])

\* C21: for a file of size > 0 and a header bytes=a-b with a <= b and
\* a < size, parse_range yields (a, min(b, size-1)); for bytes=a- with
\* a < size it yields (a, size-1); the range is requested and, when the
\* download succeeds, the response is 206 with Content-Range
\* bytes a-min(b,size-1)/size.
C21_RangeServed ==
    [][\A t \in Tasks :
          /\ (/\ RangeRequestStep(t) /\ RangeFile(t).some /\ RangeFile(t).size > 0
              /\ PartNum(t, 1).some /\ PartNum(t, 2).some
              /\ PartNum(t, 1).v <= PartNum(t, 2).v
              /\ PartNum(t, 1).v < RangeFile(t).size) =>
                /\ dt'[t].pc = "download"
                /\ dt'[t].range.kind = "Ok"
                /\ dt'[t].range.start = PartNum(t, 1).v
                /\ dt'[t].range.end =
                      (IF PartNum(t, 2).v < RangeFile(t).size - 1 THEN PartNum(t, 2).v
                       ELSE RangeFile(t).size - 1)
          /\ (/\ RangeRequestStep(t) /\ RangeFile(t).some /\ RangeFile(t).size > 0
              /\ PartNum(t, 1).some /\ dt'[t].hdr.parts[2] = <<>>
              /\ PartNum(t, 1).v < RangeFile(t).size) =>
                /\ dt'[t].pc = "download"
                /\ dt'[t].range.kind = "Ok"
                /\ dt'[t].range.start = PartNum(t, 1).v
                /\ dt'[t].range.end = RangeFile(t).size - 1
          /\ (/\ dt[t].pc = "download" /\ dt[t].range.kind = "Ok"
              /\ dt'[t].pc = "done" /\ dt'[t].ok) =>
                /\ dt'[t].status = 206
                /\ dt'[t].crange.kind = "range"
                /\ dt'[t].crange.start = dt[t].range.start
                /\ dt'[t].crange.end = dt[t].range.end
                /\ dt'[t].crange.size = dt[t].len]_vars

\* C21 witness: bytes=1-4 on a file of 3 bytes has been answered 206 with
\* Content-Range bytes 1-2/3
C21_Witness ==
    \E t \in Tasks :
        /\ dt[t].pc = "done" /\ dt[t].op = "get" /\ dt[t].status = 206
        /\ dt[t].hdr.parts = <<<<1>>, <<4>>>> /\ dt[t].len = 3
        /\ dt[t].crange = [kind |-> "range", start |-> 1, end |-> 2, size |-> 3]

\* the Range header is well formed: a first byte with or without a last
\* byte, or a suffix length
ValidRange(t) ==
    \/ PartNum(t, 1).some /\ (dt'[t].hdr.parts[2] = <<>> \/ PartNum(t, 2).some)
    \/ dt'[t].hdr.parts[1] = <<>> /\ PartNum(t, 2).some

\* C22: a well-formed Range whose first byte is >= size, and any well-formed
\* Range on an empty file, is answered 416 with Content-Range bytes */size
\* and an empty body, and no download request is sent.
C22_RangeNotSatisfiable ==
    [][\A t \in Tasks :
          (/\ RangeRequestStep(t) /\ RangeFile(t).some /\ ValidRange(t)
           /\ \/ PartNum(t, 1).some /\ PartNum(t, 1).v >= RangeFile(t).size
              \/ RangeFile(t).size = 0) =>
                /\ dt'[t].pc = "done" /\ dt'[t].status = 416
                /\ dt'[t].crange = ContentRangeStar(RangeFile(t).size)
                /\ dt'[t].body = 0]_vars

\* C22 witness: bytes=3- on a file of 3 bytes, and bytes=0-0 on an empty
\* file, have been answered 416
C22_Witness ==
    \E t \in Tasks :
        /\ dt[t].pc = "done" /\ dt[t].op = "get" /\ dt[t].status = 416
        /\ \/ dt[t].hdr.parts = <<<<3>>, <<>>>> /\ dt[t].crange = ContentRangeStar(3)
           \/ dt[t].hdr.parts = <<<<0>>, <<0>>>> /\ dt[t].crange = ContentRangeStar(0)


(***************************************************************************)
(* Claims about the error responses, checked under SpecError.              *)
(***************************************************************************)
\* the status the table gives an error
TableStatus(kind, code) ==
    IF kind = "Open115Api" THEN (IF code = 406 THEN 429 ELSE 502)
    ELSE IF kind \in {"HttpClient", "Json"} THEN 502
    ELSE IF kind = "Auth" THEN 401
    ELSE IF kind = "NotFound" THEN 404
    ELSE IF kind = "BadRequest" THEN 400
    ELSE IF kind \in {"Io", "Internal"} THEN 500
    ELSE 0

\* C25: the error-to-status mapping is total and fixed: a provider
\* application error with code 406 maps to 429 and with any other code to
\* 502; a transport error and an upstream JSON decode error map to 502; an
\* authentication error to 401; NotFound to 404; BadRequest to 400; IO and
\* Internal to 500; and every error response body is {"error": <message>}.
C25_ErrorStatusTable ==
    \A t \in Tasks :
        (dt[t].pc = "done" /\ dt[t].op = "err") =>
            /\ dt[t].status = TableStatus(dt[t].err, dt[t].i)
            /\ dt[t].status # 0
            /\ dt[t].json.keys = {"error"}
            /\ dt[t].json.error = dt[t].answer

\* C25 witness: a provider error with code 406 has been answered 429 while a
\* JSON error has been answered 502
C25_Witness ==
    \E t, u \in Tasks :
        /\ dt[t].pc = "done" /\ dt[t].err = "Open115Api" /\ dt[t].i = 406
        /\ dt[t].status = 429 /\ dt[t].json.error = "m"
        /\ dt[u].pc = "done" /\ dt[u].err = "Json" /\ dt[u].status = 502


(***************************************************************************)
(* Claims about the listing, checked under SpecRest.                       *)
(***************************************************************************)
\* the cached files (not directories) under a directory id
FileRows(cid) ==
    {id \in DOMAIN db : db[id].some /\ db[id].parent_id = cid /\ ~db[id].is_dir}
\* the cached files a listing of this type is about: those of the type's
\* directory, for data those of every shard directory cached under data
ListedRows(type) ==
    IF type = "d"
    THEN LET data_id == find_path_id(db, RepoPath \o <<"d">>)
         IN IF data_id = NoId THEN {}
            ELSE UNION {FileRows(s) :
                          s \in {x \in DOMAIN db : /\ db[x].some /\ db[x].is_dir
                                                   /\ db[x].parent_id = data_id}}
    ELSE LET dir_id == find_path_id(db, RepoPath \o <<type>>)
         IN IF dir_id = NoId THEN {} ELSE FileRows(dir_id)
ListStep(t) == dt[t].pc = "idle" /\ dt'[t].op = "list"

\* C24: GET /{type}/ returns exactly the cached non-directory children of
\* that type's directory as {name, size} entries; for data the non-directory
\* children of every shard directory cached under data; an unknown type and
\* the type "config" are rejected with 400; a directory missing from the
\* cache yields an empty list.
C24_ListReturnsCachedFiles ==
    [][\A t \in Tasks :
          ListStep(t) =>
             /\ dt'[t].pc = "done"
             /\ IF dt'[t].type \in {"x", "c"}
                THEN dt'[t].status = 400 /\ dt'[t].listed = {}
                ELSE /\ dt'[t].status = 200
                     /\ dt'[t].listed =
                           {[name |-> db[id].name, size |-> db[id].size] :
                               id \in ListedRows(dt'[t].type)}
                     /\ dt'[t].len = Cardinality(ListedRows(dt'[t].type))
                     /\ find_path_id(db, RequestDir(dt'[t])) = NoId =>
                           dt'[t].listed = {}]_vars

\* C24 witness: a listing of data has returned the file of a shard while the
\* keys directory holds another file, and the keys listing is about a file
C24_Witness ==
    \E t \in Tasks :
        /\ dt[t].pc = "done" /\ dt[t].op = "list" /\ dt[t].type = "d"
        /\ dt[t].status = 200 /\ dt[t].len = 1
        /\ \E id \in DOMAIN db : db[id].some /\ ~db[id].is_dir
                                 /\ db[id].parent_id = <<1, 2>>


(***************************************************************************)
(* Claims about the data shards, checked under SpecPost.                   *)
(***************************************************************************)
\* the first two characters of a name (the whole name when it is shorter)
FirstTwo(n) == IF Len(n) <= 2 THEN n ELSE SubSeq(n, 1, 2)
\* the directory HEAD, GET and DELETE of /data/N resolve
ShardOf(d, n) == find_dir_id(d, "d", n).id
\* id is the row of the shard directory of name n under repo_root/data
IsShardOf(d, id, n) ==
    /\ id \in DOMAIN d /\ d[id].some /\ d[id].is_dir
    /\ d[id].name = FirstTwo(n)
    /\ d[id].parent_id = find_path_id(d, RepoPath \o <<"d">>)
    /\ d[id].parent_id # NoId

\* C23: for every data blob name N, POST, HEAD, GET and DELETE of /data/N
\* resolve the directory repo_root/data/<first two characters of N>, so a
\* blob written by POST is the one the other three address, and every data
\* file row created through the REST surface has as parent the shard
\* directory named by the first two characters of its name.
C23_DataShardByPrefix ==
    /\ [](\A t \in Tasks :
            (dt[t].op = "post" /\ dt[t].type = "d") =>
               /\ (dt[t].pc \in {"done", "uploading"} /\ dt[t].ok) =>
                     /\ IsShardOf(db, dt[t].val, dt[t].name)
                     /\ ShardOf(db, dt[t].name) = dt[t].val
               /\ (dt[t].pc = "done" /\ dt[t].status = 200) =>
                     find_file(db, ShardOf(db, dt[t].name), dt[t].name).some)
    /\ [][\A id \in Ids :
             (/\ ~db[id].some /\ db'[id].some
              /\ \E t \in Tasks : dt[t].op = "post" /\ dt[t].type = "d"
                                  /\ dt[t].pc = "uploading") =>
                IsShardOf(db', db'[id].parent_id, db'[id].name)]_vars


(***************************************************************************)
(* Claims about is_api_error, checked under SpecApi.                       *)
(***************************************************************************)
\* the word w in some letter case
AnyCase(s, lower, upper) ==
    /\ Len(s) = Len(lower)
    /\ \A i \in 1..Len(s) : s[i] \in {lower[i], upper[i]}

IntegerCodeNonZero(v) == v.code.kind = "num" /\ v.code.n # 0
CodeAbsentOrZero(v) == v.code.kind = "absent" \/ (v.code.kind = "num" /\ v.code.n = 0)

StateSaysFalse(v) ==
    \/ v.state = JBool(FALSE)
    \/ v.state = JNum(0)
    \/ v.state = JStr(<<"0">>)
    \/ v.state.kind = "str"
       /\ AnyCase(v.state.s, <<"f","a","l","s","e">>, <<"F","A","L","S","E">>)

StateSaysTrue(v) ==
    \/ v.state = JBool(TRUE)
    \/ v.state = JNum(1)
    \/ v.state = JStr(<<"1">>)
    \/ v.state.kind = "str"
       /\ AnyCase(v.state.s, <<"t","r","u","e">>, <<"T","R","U","E">>)

\* C26: is_api_error(v) is true exactly when v has an integer code other than
\* 0, or v's state is boolean false, integer 0, or the string "0" or "false"
\* in any letter case; it is false when state is true, 1, "1" or "true" in
\* any case and code is absent or 0.
C26_IsApiError ==
    rq.pc = "checked" =>
        /\ rq.error <=> (IntegerCodeNonZero(rq) \/ StateSaysFalse(rq))
        /\ (StateSaysTrue(rq) /\ CodeAbsentOrZero(rq)) => ~rq.error

\* a state "FALSE" with code 0 was found to be an error
C26_Witness ==
    /\ rq.pc = "checked"
    /\ rq.state = JStr(<<"F","A","L","S","E">>)
    /\ rq.code = JNum(0)
    /\ rq.error


(***************************************************************************)
(* Claims about the traffic of one upload, checked under SpecRequests.     *)
(***************************************************************************)
\* the sign_check range can be hashed on size bytes
UsableSign(sg, size) ==
    sg.some /\ size > 0 /\ sg.start < size /\ sg.start <= sg.end

UploadDone == up.pc = "done"
FirstStatus(S) == rq.st1.some /\ rq.st1.v \in S
SecondStatus(S) == rq.st2.some /\ rq.st2.v \in S
InitStatuses == {-1, 1, 2, 6, 7, 8}
Challenged == FirstStatus(6..8) /\ UsableSign(rq.sg1, up.len)

FailedBeforePut ==
    /\ rq.puts = 0
    /\ ~up.ok
    /\ up.err \in {"Internal: upload: missing bucket", "HttpClient", "Open115Api",
                   "Internal: get_token: missing endpoint"}

ChallengeAnswered == FirstStatus(6..8) /\ rq.sg1.some

\* the range cannot be hashed on the bytes of the upload
BadChallenge ==
    up.len = 0 \/ rq.sg1.start >= up.len \/ rq.sg1.start > rq.sg1.end

\* C28: in the sign-check challenge with range start-end the hash is taken
\* over bytes[start..=min(end, size-1)]; the upload fails with an Internal
\* error, before any second init request, when size == 0, start >= size or
\* start > end; and the slice index is never out of bounds.
C28_SignCheckRange ==
    /\ (ChallengeAnswered /\ BadChallenge) =>
          /\ UploadDone /\ ~up.ok
          /\ up.err \in {"Internal: upload init returned invalid sign_check",
                         "Internal: upload init returned invalid sign_check (start>end)"}
          /\ rq.inits = 1
    /\ (ChallengeAnswered /\ ~BadChallenge /\ ~rq.st2.some /\ ~UploadDone) =>
          /\ up.pc = "init2"
          /\ up.sign_val = Sign(rq.sg1.start, Min(rq.sg1.end, up.len - 1))
    /\ up.sign_val.some =>
          /\ up.pc = "init2"
          /\ up.sign_val.start <= up.sign_val.end
          /\ up.sign_val.end < up.len
    /\ up.err # SlicePanic

\* a challenge whose end lies past the last byte was hashed up to the last
\* byte
C28_Witness ==
    /\ ChallengeAnswered
    /\ up.pc = "init2"
    /\ rq.sg1.end > up.len - 1
    /\ up.sign_val = Sign(rq.sg1.start, up.len - 1)
    /\ rq.inits = 2


(***************************************************************************)
(* Claims about the replace-subtree write, checked under SpecSave.         *)
(***************************************************************************)
\* the entries of the listing L, one per file_id: a later entry replaces an
\* earlier one of the same file_id
ListingEntries(L) ==
    {L[i] : i \in {k \in 1..Len(L) :
                      \A j \in (k + 1)..Len(L) : L[j].file_id # L[k].file_id}}
ListingIds(L) == {L[i].file_id : i \in 1..Len(L)}
Children(d, cid) ==
    {FileInfo(id, d[id].name, d[id].is_dir, d[id].size, d[id].pick_code) :
        id \in {x \in Ids : d[x].some /\ d[x].parent_id = cid}}
Committed(t) == dt[t].op = "save" /\ dt[t].pc = "done" /\ dt[t].ok

\* C29: after save_files_to_db(dir_id, L) commits, the cached rows with
\* parent_id == dir_id are exactly the entries of L (one row per file_id),
\* and every row with a different parent_id whose file_id does not occur in
\* L is unchanged.
C29_ReplaceSubtree ==
    Committed(Writer) =>
        LET w == dt[Writer]
        IN /\ Children(db, w.cid) = ListingEntries(w.files)
           /\ \A id \in Ids :
                 (w.old[id].parent_id # w.cid /\ id \notin ListingIds(w.files))
                     => db[id] = w.old[id]

\* a listing of one file replaced two other children, moved nothing else
C29_Witness ==
    /\ Committed(Writer)
    /\ dt[Writer].files = <<FileInfo(<<9>>, "b", FALSE, MaxLen, "pc")>>
    /\ dt[Writer].old[<<9>>] = Row(<<0>>, "a", 0, "")
    /\ dt[Writer].old[<<1, 0>>] = Row(<<5>>, "a", 0, "")
    /\ db[<<1, 0>>] = Row(<<5>>, "a", 0, "")
    /\ db[<<9>>] = Row(<<0>>, "b", MaxLen, "pc")


\* the answer find_file gives on the entries of the listing L
FoundIn(L, name) ==
    LET res == {f \in ListingEntries(L) : f.filename = name}
    IN IF res = {} THEN NoFileInfo
       ELSE CHOOSE f \in res : \A o \in res \ {f} : str_lt(o.file_id, f.file_id)

\* a query of the children of the directory under save is answered
ReadStep(op) ==
    /\ dt[Writer].op = "save"
    /\ dt[Reader].pc = "idle"
    /\ dt'[Reader].pc = "done"
    /\ dt'[Reader].op = op
    /\ dt'[Reader].cid = dt[Writer].cid

\* the write has gone wrong at some statement
SaveFailed(t) == dt[t].op = "save" /\ dt[t].pc = "done" /\ ~dt[t].ok

\* C30: the replace-subtree write is atomic: a list_files or find_file that
\* runs beside save_files_to_db(dir_id, L) observes either all of the old
\* children of dir_id or all of L, never an empty or partial set, and if any
\* statement of the write fails the old children remain cached.
C30_SaveAtomic ==
    /\ [](SaveFailed(Writer) =>
            Children(db, dt[Writer].cid) = Children(dt[Writer].old, dt[Writer].cid))
    /\ [][ReadStep("list") =>
            dt'[Reader].seen \in {Children(dt[Writer].old, dt[Writer].cid),
                                  ListingEntries(dt[Writer].files)}]_vars
    /\ [][ReadStep("find") =>
            dt'[Reader].found \in
                {find_file(dt[Writer].old, dt[Writer].cid, dt'[Reader].name),
                 FoundIn(dt[Writer].files, dt'[Reader].name)}]_vars

\* between the insert of the first and of the second file of L a list_files
\* was answered with the old child
C30_Witness ==
    /\ dt[Writer].pc = "insert"
    /\ dt[Writer].i = 2
    /\ Len(dt[Writer].files) = 2
    /\ dt[Writer].files[1].file_id # dt[Writer].files[2].file_id
    /\ dt[Writer].txn # db
    /\ dt[Reader].pc = "done"
    /\ dt[Reader].op = "list"
    /\ dt[Reader].seen = Children(dt[Writer].old, Root)
    /\ Cardinality(dt[Reader].seen) = 1


(***************************************************************************)
(* Claims about the directories warm_cache visits, checked under SpecWarm. *)
(***************************************************************************)
CachedChildren(d, cid) == {id \in DOMAIN d : d[id].some /\ d[id].parent_id = cid}

\* warm_cache decides for the directory it visits; the listing it asked for
\* has arrived
VisitStep(t) == dt[t].op = "warm_cache" /\ dt[t].pc = "fetch" /\ dt'[t] # dt[t]
ListingStep(t) ==
    /\ dt[t].op = "warm_cache" /\ dt[t].pc = "listed" /\ dt'[t] # dt[t]
    /\ dt[t].ans.kind = "files"

\* C31: during warm_cache(false) a visited directory that has a cached child
\* triggers no remote listing and its cached rows are left unchanged; a
\* visited directory without cached children, and every visited directory
\* under warm_cache(true), is listed from the remote and its cached children
\* are replaced by that listing.
C31_WarmUsesCache ==
    [][\A t \in Tasks :
          /\ (VisitStep(t) /\ ~dt[t].force /\ CachedChildren(db, dt[t].cur) # {}) =>
                /\ dt'[t].pc \in {"fetch", "done"}
                /\ db' = db
          /\ (VisitStep(t) /\ (dt[t].force \/ CachedChildren(db, dt[t].cur) = {})) =>
                /\ dt'[t].pc = "list"
                /\ dt'[t].cur = dt[t].cur
          /\ (dt[t].op = "warm_cache" /\ dt[t].pc = "list" /\ dt'[t] # dt[t]) =>
                dt'[t].ans \in fetch_files_from_api(remote, dt[t].cur)
          /\ ListingStep(t) => list_files(db', dt[t].cur) = dt[t].ans.files]_vars

\* a warm_cache(false) has ended and a file row of a shard it visited, which
\* no listing carries, is still cached
C31_Witness ==
    \E t \in Tasks :
        /\ dt[t].op = "warm_cache" /\ dt[t].pc = "done" /\ dt[t].ok
        /\ ~dt[t].force
        /\ \E id \in Ids : db[id].some /\ db[id].parent_id = <<4>>
        /\ db[<<4>>].some /\ db[<<3>>].some /\ db[<<7>>].some


(***************************************************************************)
(* Claims about the end of request_with_retry, checked under SpecPipeLive. *)
(***************************************************************************)
MaxDispatches == MAX_RATE_LIMIT_RETRIES + 1
PipeRunning == rq.pc \in {"loop", "wait", "sleep", "refresh", "wait2"}

\* C32: every request_with_retry call terminates: its loop runs at most
\* MAX_RATE_LIMIT_RETRIES = 6 iterations, the sixth iteration always returns
\* (also when the sixth response is again HTTP 429 or a rate-limit code), the
\* call dispatches at most 7 requests in total, and the unreachable!() after
\* the loop is never executed.
C32_RetryTerminates ==
    /\ PipeRunning ~> (rq.pc = "done")
    /\ [](/\ rq.attempt <= MAX_RATE_LIMIT_RETRIES
          /\ rq.dispatches <= MaxDispatches
          /\ rq.err # Unreachable
          /\ rq.pc = "sleep" => rq.attempt < MAX_RATE_LIMIT_RETRIES)
    /\ [][(rq.pc = "wait" /\ rq.attempt = MAX_RATE_LIMIT_RETRIES /\ rq'.pc # "wait")
            => rq'.pc \in {"done", "refresh"}]_vars
    /\ [][rq.pc \in {"refresh", "wait2"} => rq'.pc \in {"refresh", "wait2", "done"}]_vars

\* the sixth answer was again HTTP 429 and the call returned it, after six
\* dispatches
C32_Witness ==
    /\ rq.pc = "done"
    /\ rq.attempt = MAX_RATE_LIMIT_RETRIES
    /\ rq.dispatches = MAX_RATE_LIMIT_RETRIES
    /\ rq.last.status = 429


(***************************************************************************)
(* Claims about the backoff sleeps, checked under SpecBackoff              *)
(***************************************************************************)
\* the schedule as the documentation lists it, by attempt number
Schedule == <<1, 2, 4, 8, 16, 16>>

\* an answer the refresh loop retries when attempts are left
RefreshRetryable(h) ==
    \/ h.kind \in {"transport", "garbage"}
    \/ /\ h.kind = "body"
       /\ is_refresh_rate_limited(unwrap_or(h.code, -1))

\* an answer the pipeline takes for a rate limit
PipeRateLimited(r) ==
    \/ r.status = 429
    \/ /\ r.status # 401 /\ r.kind = "json" /\ is_api_error(r) /\ r.code.some
       /\ ~is_access_token_invalid(r.code.v)
       /\ is_rate_limited(r.code.v)

\* a refresh attempt of caller c is answered in this step
RefreshAnswered(c) == rf[c].pc = "inflight" /\ rf'[c].pc # "inflight"
\* the first request of a pipeline attempt is answered in this step
PipeAnswered == rq.pc = "wait" /\ rq'.pc # "wait"

\* C33 as stated: each of the six attempts that meets a rate limit (or, in a
\* refresh, a retryable failure) is followed by the sleep the schedule
\* 1, 2, 4, 8, 16, 16 gives for it.
C33_AsStated ==
    [][/\ \A c \in Callers :
            RefreshAnswered(c) /\ RefreshRetryable(rf'[c].last)
            => rf'[c].pc = "sleep" /\ rf'[c].secs = Schedule[rf[c].attempt]
       /\ PipeAnswered /\ PipeRateLimited(rq'.last)
            => rq'.pc = "sleep" /\ rq'.secs = Schedule[rq.attempt]]_vars

\* C33 (amended): a refresh and a rate-limited pipeline call sleep only after
\* attempts 1 to 5, for 1, 2, 4, 8 and 16 seconds in that order (2^(a-1)
\* after attempt a, never more than the cap); the sixth attempt is never
\* followed by a sleep: it ends the call, or the pipeline's one forced
\* refresh and re-dispatch do.
C33_BackoffSchedule ==
    /\ [](/\ \A c \in Callers :
               rf[c].pc = "sleep"
               => /\ rf[c].attempt < MAX_RATE_LIMIT_RETRIES
                  /\ rf[c].secs = Schedule[rf[c].attempt]
                  /\ rf[c].secs = Pow2(rf[c].attempt - 1)
                  /\ rf[c].secs <= BackoffCapSecs
          /\ rq.pc = "sleep"
               => /\ rq.attempt < MAX_RATE_LIMIT_RETRIES
                  /\ rq.secs = Schedule[rq.attempt]
                  /\ rq.secs = Pow2(rq.attempt - 1)
                  /\ rq.secs <= BackoffCapSecs)
    /\ [][/\ \A c \in Callers :
               /\ RefreshAnswered(c) /\ RefreshRetryable(rf'[c].last)
                  => IF rf[c].attempt < MAX_RATE_LIMIT_RETRIES
                     THEN rf'[c].pc = "sleep"
                     ELSE rf'[c].pc = "done" /\ ~rf'[c].ok /\ rf'[c].secs = 0
               /\ rf[c].pc = "sleep" /\ rf'[c].pc # "sleep"
                  => rf'[c].pc = "inflight" /\ rf'[c].attempt = rf[c].attempt + 1
          /\ PipeAnswered /\ PipeRateLimited(rq'.last)
               => IF rq.attempt < MAX_RATE_LIMIT_RETRIES
                  THEN rq'.pc = "sleep"
                  ELSE rq'.pc \in {"done", "refresh"} /\ rq'.secs = 0
          /\ rq.pc = "sleep" /\ rq'.pc # "sleep"
               => rq'.pc = "loop" /\ rq'.attempt = rq.attempt + 1]_vars

\* a refresh and a pipeline call are both in the longest sleep
C33_Witness ==
    /\ rq.pc = "sleep" /\ rq.secs = BackoffCapSecs /\ rq.attempt = 5
    /\ \E c \in Callers :
         rf[c].pc = "sleep" /\ rf[c].secs = BackoffCapSecs /\ rf[c].attempt = 5


(***************************************************************************)
(* fetch_files_from_api page by page: GET /open/ufile/files with limit and *)
(* offset until offset >= count, and the save of its caller                *)
(***************************************************************************)
\* line 250: let limit = 1150i64
ListLimit == 1150
\* the most page requests one listing is followed for
MaxPages == 4

\* the task that lists and the directory it lists
Lister == "t1"
ListedDir == <<5>>

\* FileListResponse: what one page request is answered with
PageEntries == {FileInfo(<<9>>, "a", FALSE, 0, "pc"),
                FileInfo(<<1, 0>>, "b", FALSE, 0, "pc")}
PageDatas == UNION {[1..n -> PageEntries] : n \in 0..MaxLen}
PageCounts == {NoneInt} \cup {Some(c) : c \in {-1, 0, 1, ListLimit, ListLimit + 1,
                                               2 * ListLimit, 2 * ListLimit + 1}}
PageStates == {deserialize_state(j) : j \in {JAbsent, JBool(TRUE), JBool(FALSE)}}
PageCodes == {NoneInt, Some(0), Some(5)}
PageResps ==
    {[kind |-> k, state |-> NoneBool, code |-> NoneInt, count |-> NoneInt,
      data |-> <<>>] : k \in {"transport", "garbage"}}
    \cup {[kind |-> "json", state |-> st, code |-> cd, count |-> ct, data |-> d] :
             st \in PageStates, cd \in PageCodes, ct \in PageCounts,
             d \in PageDatas}

\* the listing of one task: its place (pc), the directory, the loop's offset
\* and Vec (all), the offsets requested and the pages received so far, the
\* count of the first page and whether every page repeated it, and the
\* Result (ok | err)
ListIdle == [pc |-> "idle", cid |-> NoId, offset |-> 0, all |-> <<>>,
             reqs |-> <<>>, pages |-> <<>>, count |-> 0, same |-> TRUE,
             ok |-> FALSE, err |-> ""]

\* a loop that asks for one more page when offset equals count
list_done_Strict(offset, count) == offset > count

\* lines 286-289: offset += limit was done; if offset >= count { break }
list_done(offset, count) == offset >= count

\* line 269: a page that ends the listing with Open115Api
page_failed(resp) ==
    (resp.state.some /\ ~resp.state.v) \/ unwrap_or(resp.code, 0) # 0

\* lines 242, 247-251: fetch_files_from_api(cid) is entered
list_begin(t, cid) ==
    /\ dt[t].pc = "idle"
    /\ dt' = [dt EXCEPT ![t] = [ListIdle EXCEPT !.pc = "loop", !.cid = cid]]
    /\ UNCHANGED db

\* lines 253-265: the page at the loop's offset is requested
list_request(t) ==
    /\ dt[t].pc = "loop"
    /\ Len(dt[t].reqs) < MaxPages
    /\ dt' = [dt EXCEPT ![t] = [@ EXCEPT !.pc = "wait",
                                         !.reqs = Append(@, dt[t].offset)]]
    /\ UNCHANGED db

\* lines 265-290: get_json's error is returned by `?`; a page with state
\* false or a non-zero code returns Open115Api; else the entries are pushed,
\* the offset advances and the loop breaks or goes on
list_answer(t) ==
    /\ dt[t].pc = "wait"
    /\ \E resp \in PageResps :
         LET q == dt[t]
             count == unwrap_or(resp.count, Len(resp.data))
             offset == q.offset + ListLimit
         IN dt' = [dt EXCEPT ![t] =
               IF resp.kind = "transport"
               THEN [q EXCEPT !.pc = "done", !.err = "HttpClient"]
               ELSE IF resp.kind = "garbage"
               THEN [q EXCEPT !.pc = "done", !.err = "Json"]
               ELSE IF page_failed(resp)
               THEN [q EXCEPT !.pc = "done", !.err = "Open115Api"]
               ELSE [q EXCEPT !.pc = IF list_done(offset, count)
                                     THEN "fetched" ELSE "loop",
                              !.offset = offset,
                              !.all = @ \o resp.data,
                              !.pages = Append(@, resp.data),
                              !.count = IF q.pages = <<>> THEN count ELSE @,
                              !.same = @ /\ (q.pages = <<>> \/ count = q.count)]]
    /\ UNCHANGED db

\* lines 242-244: Ok(all) goes to save_files_to_db
list_save(t) ==
    /\ dt[t].pc = "fetched"
    /\ db' = save_files_to_db(db, dt[t].cid,
                              {dt[t].all[i] : i \in DOMAIN dt[t].all})
    /\ dt' = [dt EXCEPT ![t] = [@ EXCEPT !.pc = "done", !.ok = TRUE]]

\* the caller takes the Result
list_return(t) ==
    /\ dt[t].pc = "done"
    /\ dt' = [dt EXCEPT ![t] = ListIdle]
    /\ UNCHANGED db

\* the cache as an earlier listing of the directory can have left it
ListRows == {NoRow, Row(ListedDir, "a", 0, "pc")}
InitList ==
    /\ token = SeedToken
    /\ now = 0
    /\ rf = [c \in Callers |-> IdleTask]
    /\ rq = RqIdle
    /\ db \in [Ids -> ListRows]
    /\ up = UpIdle
    /\ remote = RemoteEmpty /\ ensured = NoneEnsured
    /\ dt = [t \in Tasks |-> ListIdle]

NextList ==
    \/ list_begin(Lister, ListedDir)
       /\ UNCHANGED <<token, now, rf, rq, up, remote, ensured>>
    \/ list_request(Lister) /\ UNCHANGED <<token, now, rf, rq, up, remote, ensured>>
    \/ list_answer(Lister) /\ UNCHANGED <<token, now, rf, rq, up, remote, ensured>>
    \/ list_save(Lister) /\ UNCHANGED <<token, now, rf, rq, up, remote, ensured>>
    \/ list_return(Lister) /\ UNCHANGED <<token, now, rf, rq, up, remote, ensured>>

SpecList == InitList /\ [][NextList]_vars

(***************************************************************************)
(* Claims about the pages of a listing, checked under SpecList             *)
(***************************************************************************)
\* ceil(c / ListLimit), also for a negative c
CeilPages(c) == -((-c) \div ListLimit)
PagesFor(c) == IF CeilPages(c) > 1 THEN CeilPages(c) ELSE 1

RECURSIVE Concat(_)
Concat(ps) == IF ps = <<>> THEN <<>> ELSE Head(ps) \o Concat(Tail(ps))

\* the listing of the Lister returned Ok(all) to its caller
Listed == dt[Lister].pc = "fetched" \/ (dt[Lister].pc = "done" /\ dt[Lister].ok)

\* C34: the page requests of a listing go out at offsets 0, 1150, 2300, ...;
\* while every page reports the same count c the loop goes on as long as the
\* next offset is below c and stops as soon as it is not, so a finished
\* listing has issued max(1, ceil(c / 1150)) requests; what it returns is
\* the concatenation of the entries of its pages; a transport or decode
\* error, a state false or a non-zero code ends it with an error on that
\* page, and the cache is written only after a listing that returned Ok.
C34_ListPages ==
    /\ [](LET q == dt[Lister]
          IN /\ \A i \in DOMAIN q.reqs : q.reqs[i] = (i - 1) * ListLimit
             /\ q.all = Concat(q.pages)
             /\ q.pc = "loop" /\ q.same /\ q.pages # <<>> => q.offset < q.count
             /\ Listed /\ q.same
                => /\ q.offset >= q.count
                   /\ Len(q.reqs) = PagesFor(q.count)
                   /\ Len(q.pages) = Len(q.reqs)
             /\ q.pc = "done" /\ ~q.ok => q.err # "")
    /\ [][LET q == dt[Lister]
              p == dt'[Lister]
          IN /\ db' # db
                => /\ q.pc = "fetched" /\ p.pc = "done" /\ p.ok
                   /\ list_files(db', q.cid)
                        = {q.all[i] : i \in DOMAIN q.all}
             /\ q.pc = "wait" /\ p.pc = "done"
                => ~p.ok /\ db' = db /\ p.all = q.all /\ p.pages = q.pages
             /\ q.pc = "done" /\ ~q.ok => p.pc = "idle" /\ db' = db]_vars

\* a listing of three pages with constant count 2301 was saved
C34_Witness ==
    LET q == dt[Lister]
    IN /\ q.pc = "done" /\ q.ok /\ q.same
       /\ q.count = 2 * ListLimit + 1
       /\ q.reqs = <<0, ListLimit, 2 * ListLimit>>
       /\ Len(q.all) >= 2
       /\ \E id \in Ids : db[id].some /\ db[id].name = "b"


(***************************************************************************)
(* warm_cache beside an upload_file into a directory it visits             *)
(***************************************************************************)
\* the task that uploads, and the shard directory it uploads into
Uploader == "t2"
StaleDir == <<4>>

\* the provider stores the object of an upload under a file id of its own:
\* the upload-init answered with status 2, or the callback of the PUT
\* (lines 1184-1204, 1322-1344), before handle_upload_success runs
remote_store(t) ==
    /\ dt[t].op = "upload" /\ dt[t].pc = "init"
    /\ \E id \in Ids :
         /\ remote[id].st = "free"
         /\ remote' = [remote EXCEPT ![id] = RNode(dt[t].cur, dt[t].name, FALSE)]
    /\ UNCHANGED <<db, dt, ensured>>

\* handle_upload_success with the file_id of the object the provider stored
upload_answered(t) ==
    /\ handle_upload_success(t)
    /\ \/ dt'[t].pc = "done"
       \/ dt'[t].val \in remote_named(remote, dt[t].cur, dt[t].name)

\* the repository tree on the provider and in the cache, no file yet
InitStale ==
    /\ token = SeedToken
    /\ now = 0
    /\ rf = [c \in Callers |-> IdleTask]
    /\ rq = RqIdle
    /\ up = UpIdle
    /\ db = RestCache(DOMAIN RestDirs, [id \in Ids |-> NoRow])
    /\ remote = [id \in DOMAIN RestDirs \cup Ids |->
                   IF id \in Ids THEN RFree ELSE RestRemote(DOMAIN RestDirs)[id]]
    /\ dt = DtInit
    /\ ensured = NoneEnsured

NextStale ==
    \/ ensure_path(Lister, RepoPath, TRUE) /\ UNCHANGED <<token, now, rf, rq, up>>
    \/ \E f \in BOOLEAN :
          warm_cache(Lister, f) /\ UNCHANGED <<token, now, rf, rq, up>>
    \/ fetch_or_use_cache(Lister) /\ UNCHANGED <<token, now, rf, rq, up>>
    \/ remote_list(Lister) /\ UNCHANGED <<token, now, rf, rq, up>>
    \/ warm_listed(Lister) /\ UNCHANGED <<token, now, rf, rq, up>>
    \/ \E n \in Names :
          upload_begin(Uploader, StaleDir, n, MaxLen)
          /\ UNCHANGED <<token, now, rf, rq, up>>
    \/ remote_store(Uploader) /\ UNCHANGED <<token, now, rf, rq, up>>
    \/ upload_answered(Uploader) /\ UNCHANGED <<token, now, rf, rq, up>>
    \/ dup_delete(Uploader) /\ UNCHANGED <<token, now, rf, rq, up>>
    \/ dup_insert(Uploader) /\ UNCHANGED <<token, now, rf, rq, up>>
    \/ \E t \in Tasks : task_return(t) /\ UNCHANGED <<token, now, rf, rq, up>>

SpecStale == InitStale /\ [][NextStale]_vars

(***************************************************************************)
(* Claims about a listing that is older than an upload, checked under      *)
(* SpecStale                                                               *)
(***************************************************************************)
\* the upload returned Ok and warm_cache has returned
BothFinished ==
    /\ dt[Uploader].op = "upload" /\ dt[Uploader].pc = "done" /\ dt[Uploader].ok
    /\ dt[Lister].op = "warm_cache" /\ dt[Lister].pc = "done"

\* C35: once an upload into a directory and a warm_cache that visits the
\* directory have both finished, find_file(directory, name) returns the row
\* the upload inserted, whatever the order of the listing and the upload.
C35_UploadSurvives ==
    BothFinished
    => /\ db[dt[Uploader].val].some
       /\ db[dt[Uploader].val].parent_id = StaleDir
       /\ db[dt[Uploader].val].name = dt[Uploader].name
       /\ find_file(db, StaleDir, dt[Uploader].name).file_id = dt[Uploader].val


(***************************************************************************)
(* Claims about what delete_file makes of the provider's answer, checked   *)
(* under SpecRest                                                          *)
(***************************************************************************)
\* C36: the answer to the remote delete decides: when the provider accepted
\* the delete or reported the target absent the cached row is removed and
\* the DELETE succeeds; on any other outcome (a refusal for another reason,
\* an error of the pipeline) the row is kept and an error is answered.
C36_DeleteOnlyWhenGone ==
    [][\A t \in RestTasks :
          DeleteAnswerStep(t)
          => IF dt'[t].answer \in {"accepted", "refused"}
             THEN ~db'[dt[t].val].some /\ dt'[t].status = 200
             ELSE db' = db /\ dt'[t].status # 200]_vars


\* a HEAD or GET by task t that follows its DELETE of the same name, which
\* was answered 200
ReadAfterDelete(t) ==
    /\ dt[t].pc = "idle" /\ dt'[t].op \in {"head", "get"}
    /\ dt[t].prev.status = 200
    /\ dt[t].prev.type = dt'[t].type /\ dt[t].prev.name = dt'[t].name

\* C37: a HEAD or GET of a name that follows a DELETE of that name answered
\* 200, with no upload in between, answers 404, also when the cache held
\* several rows of that parent and name before the DELETE.
C37_GoneAfterDelete ==
    [][\A t \in RestTasks :
          ReadAfterDelete(t) => dt'[t].pc = "done" /\ dt'[t].status = 404]_vars


(***************************************************************************)
(* Claims about the rows upload_file inserts, checked under SpecUpload     *)
(***************************************************************************)
\* C38: every file row that a step of upload_file puts into the cache, on
\* the instant-dedup branches and on the OSS branch, has a non-empty
\* pick_code.
C38_RowsHavePickCode ==
    [][\A id \in DOMAIN db :
          (db'[id].some /\ ~db'[id].is_dir /\ db'[id] # db[id])
          => db'[id].pick_code # ""]_vars


(***************************************************************************)
(* Claims about the bounds parse_range returns, checked under SpecRange    *)
(***************************************************************************)
\* the step by which GET takes a request that carries a Range header
RangeHeaderStep(t) ==
    dt[t].pc = "idle" /\ dt'[t].op = "get" /\ dt'[t].hdr.some

\* C39: whenever parse_range(header, size) returns Ok((s, e)) then
\* 0 <= s <= e <= size - 1, and that range is the one downloaded; for size 0
\* it never returns Ok: a header with the prefix and two parts returns
\* Unsatisfiable before file_size - 1 is computed, so that subtraction is
\* made only on size >= 1, and the suffix length is taken off with
\* saturating_sub, which never goes below 0.
C39_RangeWithinFile ==
    [][\A t \in RestTasks :
          RangeHeaderStep(t) /\ RangeFile(t).some
          => LET size == RangeFile(t).size
                 h == dt'[t].hdr
                 r == parse_range(h, size)
             IN /\ r.kind = "Ok"
                   => /\ 0 <= r.start /\ r.start <= r.end /\ r.end <= size - 1
                      /\ size >= 1
                      /\ dt'[t].pc = "download" /\ dt'[t].range = r
                /\ size = 0 /\ h.prefix /\ Len(h.parts) = 2
                   => r = RangeUnsatisfiable /\ dt'[t].status = 416
                /\ h.prefix /\ Len(h.parts) = 2 /\ h.parts[1] = <<>>
                   /\ PartNum(t, 2).some /\ r.kind = "Ok"
                   => r.start = saturating_sub(size, PartNum(t, 2).v)
                      /\ r.start >= 0]_vars

\* a suffix range whose length is not below the size of the file was parsed:
\* the start was saturated to 0 and the end clamped to size - 1
C39_Witness ==
    \E t \in RestTasks :
        /\ dt[t].op = "get" /\ dt[t].pc = "download"
        /\ dt[t].hdr.some /\ dt[t].hdr.prefix
        /\ dt[t].hdr.parts = <<<<>>, <<MaxSize + 1>>>>
        /\ dt[t].len = MaxSize
        /\ dt[t].range = RangeOk(0, MaxSize - 1)

====
